---- MODULE Spec2Model ----
(***************************************************************************)
(* A model of the transformation engine of restringer: the script-scoped   *)
(* cache (getCache.js), the source reconstructor (createOrderedSrc.js),    *)
(* the context collector (getDeclarationWithContext.js), the safe          *)
(* evaluation sandbox (evalInVm.js, sandbox.js) with its trap              *)
(* neutralisation, the value-to-node conversion (createNewNode.js) and the *)
(* fixpoint driver.                                                        *)
(*                                                                         *)
(* JavaScript objects are modelled by their identity: a mapping object is  *)
(* a number into `heap`, a syntax-tree node is its index in the node table *)
(* of its script.                                                          *)
(***************************************************************************)
EXTENDS Integers, Sequences, FiniteSets, TLC

VARIABLES
    RELEVANT_SCRIPT_HASH,   \* getCache.js: the identity that owns CACHE
    CACHE,                  \* getCache.js: the mapping object currently shared
    heap,                   \* mapping objects: object id -> (key -> value)
    calls,                  \* the last two getCache calls, newest first
    flushedSince            \* getCache.flush ran since the newest getCache call

cacheVars == <<RELEVANT_SCRIPT_HASH, CACHE, heap, calls, flushedSince>>

VARIABLES
    nodeId,                 \* the nodeId field of every syntax-tree node
    arr,                    \* the array a caller passed to createOrderedSrc, as the call left it
    inp,                    \* that array as it was when the call began
    po,                     \* the preserveOrder argument of that call
    outNodes,               \* processedNodes of that call, after the sort
    out                     \* the text that call returned

ordVars == <<nodeId, arr, inp, po, outNodes, out>>

VARIABLES
    isMarked,               \* the nodes marked for replacement or deletion
    arrays,                 \* array objects the collector returned: id -> elements
    ctxCall                 \* the last getDeclarationWithContext call and what it returned

ctxVars == <<isMarked, arrays, ctxCall>>

VARIABLES
    EVAL_CACHE,             \* evalInVm.js: its own CACHE, cache name -> node or BAD_VALUE
    sb,                     \* the context of the Sandbox a caller keeps, or NoSandbox
    evalLog,                \* the evalInVm calls made so far and what each returned
    batchDone               \* a rule has made its pass over the literals of the script

evalVars == <<EVAL_CACHE, sb, evalLog, batchDone>>

VARIABLES
    convValue,              \* the value a caller hands to createNewNode
    convNode                \* what createNewNode returned for it

convVars == <<convValue, convNode>>

VARIABLES
    trapText,               \* the fragment evalInVm was given, as its characters
    trapOut                 \* that fragment after the traps were replaced

trapVars == <<trapText, trapOut>>

VARIABLES
    drvState,               \* Idle, Running, Converged or IterationLimitReached
    drvRules,               \* the rule list the caller supplied
    drvCeiling,             \* the iteration ceiling, or NoCeiling
    drvTree,                \* the tree the rules work on
    drvIndex,               \* the place in the rule list of the rule to run next
    drvDirty,               \* a transform altered the tree in this pass
    drvPass,                \* full passes made
    drvPassLog              \* the tree at the start of the last pass and after each of its rules

driverVars ==
    <<drvState, drvRules, drvCeiling, drvTree, drvIndex, drvDirty, drvPass, drvPassLog>>

VARIABLES
    augMatches,             \* the matches of the augmented array rule on the script it runs on
    augIndex,               \* the place in augMatches of the match to transform next, 0 before the rule runs
    augLog,                 \* the transforms made: the context used, the text evaluated, the nodes marked
    recon                   \* a context as returned and as returned again, the nodes createOrderedSrc renumbered between

augVars == <<augMatches, augIndex, augLog, recon>>

\* The variables of the components the modules above do not touch.
restVars == <<convVars, trapVars, driverVars, augVars>>

vars == <<cacheVars, ordVars, ctxVars, evalVars, restVars>>

\* What the operations of one component leave alone.
notCache == <<ordVars, ctxVars, evalVars, restVars>>
notOrd == <<cacheVars, ctxVars, evalVars, restVars>>

(***************************************************************************)
(* Bounds of the model.                                                    *)
(***************************************************************************)
\* Mapping objects the cache may allocate in one behaviour.
MaxObjs == 4
\* Length of an array passed to createOrderedSrc.
MaxInput == 2
\* Times LARGE_NUMBER may be added to one node's nodeId in one behaviour.
MaxShift == 2
\* Arrays the collector may build in one behaviour.
MaxArrays == 2
\* Numeric literals of one batch of evaluations.
MaxFillers == 100
\* evalInVm calls a caller makes one by one in one behaviour.
MaxEvalCalls == 2
\* Magnitude of the finite numbers handed to createNewNode.
MaxMagnitude == 12
\* Nesting depth of the arrays and objects handed to createNewNode.
MaxDepth == 2
\* Pieces a fragment handed to the trap replacement is put together from.
MaxPieces == 2
\* Rules of a rule list handed to the driver.
MaxRules == 2
\* The largest iteration ceiling a caller sets.
MaxCeiling == 3
\* Nodes of the driver's tree a shrinking rule matches at the start.
MaxTree == 2

(***************************************************************************)
(* The syntax trees.  A node is its index in AST; the fields are those     *)
(* flast's generateFlatAST gives a node (the tests use them as ast[n]).    *)
(* -1 stands for an absent node.  A nodeId is kept as hi * LARGE_NUMBER +  *)
(* lo, because LARGE_NUMBER = 999e8 does not fit a 32-bit integer.         *)
(***************************************************************************)
\* The node of a row of NodeRows: scriptHash, type, parent, parentKey, kids,
\* start, end, src, nodeId and scopeBlock; the other fields have these values
\* unless NodeFields gives them.  scopeBlock is node.scope.block: a node lies
\* in the scope of the nearest function or Program above it, so a function
\* node lies in the enclosing scope and only a Program is its own scope block.
Node(row) ==
    [scriptHash |-> row[1], type |-> row[2], parent |-> row[3], parentKey |-> row[4],
     kids |-> row[5], start |-> row[6], end |-> row[7], src |-> row[8], nodeId |-> row[9],
     scopeBlock |-> row[10], name |-> "", value |-> "", kind |-> "", declNode |-> -1,
     refs |-> <<>>, through |-> <<>>, parses |-> TRUE,
     fnHit |-> FALSE, fnPre |-> "", fnPost |-> ""]

\* Script hO (nodes 0..41):
\*   var x;a();(function(p){})(x);(function(){})();b();(function(){})();
\*   var f=function(){};!function(){}();var m={g(){}};
\* Script hC (nodes 100..111):
\*   function a() {return 1;}\na();\na();
\* Script hD (nodes 200..216):
\*   let a = 1; function b(arg) {arg = 3;} b(a);
\* Script hT4 (nodes 500..523):
\*   function a() {}\na = {};\na.b = 2;\na = {};\na(a.b);
\* Script hF (nodes 900..914):
\*   function a() {}\na = {};\na = 3;\nfunction u() {}
\* Script hA (nodes 1000..1041):
\*   var arr = [1,2,3];(function(a,n){a.push(a.shift())})(arr,1);
\*   (function(a,n){a.push(a.shift())})(arr,1);
\* Script hB (nodes 1100..1127):
\*   var arr;arr = [1,2,3];(function(a,n){a.push(a.shift())})(arr,1);
\* Script hG (nodes 1200..1246):
\*   var arr = [1,2];(function(a,n){a.push(Math.random())})(arr,1);
\*   var brr = [4,5];(function(a,n){a.push(a.shift())})(brr,1);
NodeRows ==
    0 :> <<"hO", "Program", -1, "", <<1, 4, 7, 13, 17, 20, 24, 29, 34, 42>>, 0, 120, "var x;a();(function(p){})(x);(function(){})();b();(function(){})();var f=function(){};!function(){}();var m={g(){}};x=1;", 0, 0>> @@
    1 :> <<"hO", "VariableDeclaration", 0, "body", <<2>>, 0, 6, "var x;", 1, 0>> @@
    2 :> <<"hO", "VariableDeclarator", 1, "declarations", <<3>>, 4, 5, "x", 2, 0>> @@
    3 :> <<"hO", "Identifier", 2, "id", <<>>, 4, 5, "x", 3, 0>> @@
    4 :> <<"hO", "ExpressionStatement", 0, "body", <<5>>, 6, 10, "a();", 4, 0>> @@
    5 :> <<"hO", "CallExpression", 4, "expression", <<6>>, 6, 9, "a()", 5, 0>> @@
    6 :> <<"hO", "Identifier", 5, "callee", <<>>, 6, 7, "a", 6, 0>> @@
    7 :> <<"hO", "ExpressionStatement", 0, "body", <<8>>, 10, 29, "(function(p){})(x);", 7, 0>> @@
    8 :> <<"hO", "CallExpression", 7, "expression", <<9, 12>>, 10, 28, "(function(p){})(x)", 8, 0>> @@
    9 :> <<"hO", "FunctionExpression", 8, "callee", <<10, 11>>, 11, 24, "function(p){}", 9, 0>> @@
    10 :> <<"hO", "Identifier", 9, "params", <<>>, 20, 21, "p", 10, 9>> @@
    11 :> <<"hO", "BlockStatement", 9, "body", <<>>, 22, 24, "{}", 11, 9>> @@
    12 :> <<"hO", "Identifier", 8, "arguments", <<>>, 26, 27, "x", 12, 0>> @@
    13 :> <<"hO", "ExpressionStatement", 0, "body", <<14>>, 29, 46, "(function(){})();", 13, 0>> @@
    14 :> <<"hO", "CallExpression", 13, "expression", <<15>>, 29, 45, "(function(){})()", 14, 0>> @@
    15 :> <<"hO", "FunctionExpression", 14, "callee", <<16>>, 30, 42, "function(){}", 15, 0>> @@
    16 :> <<"hO", "BlockStatement", 15, "body", <<>>, 40, 42, "{}", 16, 15>> @@
    17 :> <<"hO", "ExpressionStatement", 0, "body", <<18>>, 46, 50, "b();", 17, 0>> @@
    18 :> <<"hO", "CallExpression", 17, "expression", <<19>>, 46, 49, "b()", 18, 0>> @@
    19 :> <<"hO", "Identifier", 18, "callee", <<>>, 46, 47, "b", 19, 0>> @@
    20 :> <<"hO", "ExpressionStatement", 0, "body", <<21>>, 50, 67, "(function(){})();", 20, 0>> @@
    21 :> <<"hO", "CallExpression", 20, "expression", <<22>>, 50, 66, "(function(){})()", 21, 0>> @@
    22 :> <<"hO", "FunctionExpression", 21, "callee", <<23>>, 51, 63, "function(){}", 22, 0>> @@
    23 :> <<"hO", "BlockStatement", 22, "body", <<>>, 61, 63, "{}", 23, 22>> @@
    24 :> <<"hO", "VariableDeclaration", 0, "body", <<25>>, 67, 86, "var f=function(){};", 24, 0>> @@
    25 :> <<"hO", "VariableDeclarator", 24, "declarations", <<26, 27>>, 71, 85, "f=function(){}", 25, 0>> @@
    26 :> <<"hO", "Identifier", 25, "id", <<>>, 71, 72, "f", 26, 0>> @@
    27 :> <<"hO", "FunctionExpression", 25, "init", <<28>>, 73, 85, "function(){}", 27, 0>> @@
    28 :> <<"hO", "BlockStatement", 27, "body", <<>>, 83, 85, "{}", 28, 27>> @@
    29 :> <<"hO", "ExpressionStatement", 0, "body", <<30>>, 86, 102, "!function(){}();", 29, 0>> @@
    30 :> <<"hO", "UnaryExpression", 29, "expression", <<31>>, 86, 101, "!function(){}()", 30, 0>> @@
    31 :> <<"hO", "CallExpression", 30, "argument", <<32>>, 87, 101, "function(){}()", 31, 0>> @@
    32 :> <<"hO", "FunctionExpression", 31, "callee", <<33>>, 87, 99, "function(){}", 32, 0>> @@
    33 :> <<"hO", "BlockStatement", 32, "body", <<>>, 97, 99, "{}", 33, 32>> @@
    34 :> <<"hO", "VariableDeclaration", 0, "body", <<35>>, 102, 116, "var m={g(){}};", 34, 0>> @@
    35 :> <<"hO", "VariableDeclarator", 34, "declarations", <<36, 37>>, 106, 115, "m={g(){}}", 35, 0>> @@
    36 :> <<"hO", "Identifier", 35, "id", <<>>, 106, 107, "m", 36, 0>> @@
    37 :> <<"hO", "ObjectExpression", 35, "init", <<38>>, 108, 115, "{g(){}}", 37, 0>> @@
    38 :> <<"hO", "Property", 37, "properties", <<39, 40>>, 109, 114, "g(){}", 38, 0>> @@
    39 :> <<"hO", "Identifier", 38, "key", <<>>, 109, 110, "g", 39, 0>> @@
    40 :> <<"hO", "FunctionExpression", 38, "value", <<41>>, 110, 114, "(){}", 40, 0>> @@
    41 :> <<"hO", "BlockStatement", 40, "body", <<>>, 112, 114, "{}", 41, 40>> @@
    42 :> <<"hO", "ExpressionStatement", 0, "body", <<43>>, 116, 120, "x=1;", 42, 0>> @@
    43 :> <<"hO", "AssignmentExpression", 42, "expression", <<44, 45>>, 116, 119, "x=1", 43, 0>> @@
    44 :> <<"hO", "Identifier", 43, "left", <<>>, 116, 117, "x", 44, 0>> @@
    45 :> <<"hO", "Literal", 43, "right", <<>>, 118, 119, "1", 45, 0>> @@
    100 :> <<"hC", "Program", -1, "", <<101, 106, 109>>, 0, 34, "function a() {return 1;}\na();\na();", 0, 100>> @@
    101 :> <<"hC", "FunctionDeclaration", 100, "body", <<102, 103>>, 0, 24, "function a() {return 1;}", 1, 100>> @@
    102 :> <<"hC", "Identifier", 101, "id", <<>>, 9, 10, "a", 2, 101>> @@
    103 :> <<"hC", "BlockStatement", 101, "body", <<104>>, 13, 24, "{return 1;}", 3, 101>> @@
    104 :> <<"hC", "ReturnStatement", 103, "body", <<105>>, 14, 23, "return 1;", 4, 101>> @@
    105 :> <<"hC", "Literal", 104, "argument", <<>>, 21, 22, "1", 5, 101>> @@
    106 :> <<"hC", "ExpressionStatement", 100, "body", <<107>>, 25, 29, "a();", 6, 100>> @@
    107 :> <<"hC", "CallExpression", 106, "expression", <<108>>, 25, 28, "a()", 7, 100>> @@
    108 :> <<"hC", "Identifier", 107, "callee", <<>>, 25, 26, "a", 8, 100>> @@
    109 :> <<"hC", "ExpressionStatement", 100, "body", <<110>>, 30, 34, "a();", 9, 100>> @@
    110 :> <<"hC", "CallExpression", 109, "expression", <<111>>, 30, 33, "a()", 10, 100>> @@
    111 :> <<"hC", "Identifier", 110, "callee", <<>>, 30, 31, "a", 11, 100>> @@
    200 :> <<"hD", "Program", -1, "", <<201, 205, 213>>, 0, 43, "let a = 1; function b(arg) {arg = 3;} b(a);", 0, 200>> @@
    201 :> <<"hD", "VariableDeclaration", 200, "body", <<202>>, 0, 10, "let a = 1;", 1, 200>> @@
    202 :> <<"hD", "VariableDeclarator", 201, "declarations", <<203, 204>>, 4, 9, "a = 1", 2, 200>> @@
    203 :> <<"hD", "Identifier", 202, "id", <<>>, 4, 5, "a", 3, 200>> @@
    204 :> <<"hD", "Literal", 202, "init", <<>>, 8, 9, "1", 4, 200>> @@
    205 :> <<"hD", "FunctionDeclaration", 200, "body", <<206, 207, 208>>, 11, 37, "function b(arg) {arg = 3;}", 5, 200>> @@
    206 :> <<"hD", "Identifier", 205, "id", <<>>, 20, 21, "b", 6, 205>> @@
    207 :> <<"hD", "Identifier", 205, "params", <<>>, 22, 25, "arg", 7, 205>> @@
    208 :> <<"hD", "BlockStatement", 205, "body", <<209>>, 27, 37, "{arg = 3;}", 8, 205>> @@
    209 :> <<"hD", "ExpressionStatement", 208, "body", <<210>>, 28, 36, "arg = 3;", 9, 205>> @@
    210 :> <<"hD", "AssignmentExpression", 209, "expression", <<211, 212>>, 28, 35, "arg = 3", 10, 205>> @@
    211 :> <<"hD", "Identifier", 210, "left", <<>>, 28, 31, "arg", 11, 205>> @@
    212 :> <<"hD", "Literal", 210, "right", <<>>, 34, 35, "3", 12, 205>> @@
    213 :> <<"hD", "ExpressionStatement", 200, "body", <<214>>, 38, 43, "b(a);", 13, 200>> @@
    214 :> <<"hD", "CallExpression", 213, "expression", <<215, 216>>, 38, 42, "b(a)", 14, 200>> @@
    215 :> <<"hD", "Identifier", 214, "callee", <<>>, 38, 39, "b", 15, 200>> @@
    216 :> <<"hD", "Identifier", 214, "arguments", <<>>, 40, 41, "a", 16, 200>> @@
    800 :> <<"hE", "Program", -1, "", <<801, 806>>, 0, 29, "function a() {return 2;}\na();", 0, 800>> @@
    801 :> <<"hE", "FunctionDeclaration", 800, "body", <<802, 803>>, 0, 24, "function a() {return 2;}", 1, 800>> @@
    802 :> <<"hE", "Identifier", 801, "id", <<>>, 9, 10, "a", 2, 801>> @@
    803 :> <<"hE", "BlockStatement", 801, "body", <<804>>, 13, 24, "{return 2;}", 3, 801>> @@
    804 :> <<"hE", "ReturnStatement", 803, "body", <<805>>, 14, 23, "return 2;", 4, 801>> @@
    805 :> <<"hE", "Literal", 804, "argument", <<>>, 21, 22, "2", 5, 801>> @@
    806 :> <<"hE", "ExpressionStatement", 800, "body", <<807>>, 25, 29, "a();", 6, 800>> @@
    807 :> <<"hE", "CallExpression", 806, "expression", <<808>>, 25, 28, "a()", 7, 800>> @@
    808 :> <<"hE", "Identifier", 807, "callee", <<>>, 25, 26, "a", 8, 800>> @@
    500 :> <<"hT4", "Program", -1, "", <<501, 504, 508, 514, 518>>, 0, 48, "function a() {}\na = {};\na.b = 2;\na = {};\na(a.b);", 0, 500>> @@
    501 :> <<"hT4", "FunctionDeclaration", 500, "body", <<502, 503>>, 0, 15, "function a() {}", 1, 500>> @@
    502 :> <<"hT4", "Identifier", 501, "id", <<>>, 9, 10, "a", 2, 501>> @@
    503 :> <<"hT4", "BlockStatement", 501, "body", <<>>, 13, 15, "{}", 3, 501>> @@
    504 :> <<"hT4", "ExpressionStatement", 500, "body", <<505>>, 16, 23, "a = {};", 4, 500>> @@
    505 :> <<"hT4", "AssignmentExpression", 504, "expression", <<506, 507>>, 16, 22, "a = {}", 5, 500>> @@
    506 :> <<"hT4", "Identifier", 505, "left", <<>>, 16, 17, "a", 6, 500>> @@
    507 :> <<"hT4", "ObjectExpression", 505, "right", <<>>, 20, 22, "{}", 7, 500>> @@
    508 :> <<"hT4", "ExpressionStatement", 500, "body", <<509>>, 24, 32, "a.b = 2;", 8, 500>> @@
    509 :> <<"hT4", "AssignmentExpression", 508, "expression", <<510, 513>>, 24, 31, "a.b = 2", 9, 500>> @@
    510 :> <<"hT4", "MemberExpression", 509, "left", <<511, 512>>, 24, 27, "a.b", 10, 500>> @@
    511 :> <<"hT4", "Identifier", 510, "object", <<>>, 24, 25, "a", 11, 500>> @@
    512 :> <<"hT4", "Identifier", 510, "property", <<>>, 26, 27, "b", 12, 500>> @@
    513 :> <<"hT4", "Literal", 509, "right", <<>>, 30, 31, "2", 13, 500>> @@
    514 :> <<"hT4", "ExpressionStatement", 500, "body", <<515>>, 33, 40, "a = {};", 14, 500>> @@
    515 :> <<"hT4", "AssignmentExpression", 514, "expression", <<516, 517>>, 33, 39, "a = {}", 15, 500>> @@
    516 :> <<"hT4", "Identifier", 515, "left", <<>>, 33, 34, "a", 16, 500>> @@
    517 :> <<"hT4", "ObjectExpression", 515, "right", <<>>, 37, 39, "{}", 17, 500>> @@
    518 :> <<"hT4", "ExpressionStatement", 500, "body", <<519>>, 41, 48, "a(a.b);", 18, 500>> @@
    519 :> <<"hT4", "CallExpression", 518, "expression", <<520, 521>>, 41, 47, "a(a.b)", 19, 500>> @@
    520 :> <<"hT4", "Identifier", 519, "callee", <<>>, 41, 42, "a", 20, 500>> @@
    521 :> <<"hT4", "MemberExpression", 519, "arguments", <<522, 523>>, 43, 46, "a.b", 21, 500>> @@
    522 :> <<"hT4", "Identifier", 521, "object", <<>>, 43, 44, "a", 22, 500>> @@
    523 :> <<"hT4", "Identifier", 521, "property", <<>>, 45, 46, "b", 23, 500>> @@
    900 :> <<"hF", "Program", -1, "", <<901, 904, 908, 912>>, 0, 46, "function a() {}\na = {};\na = 3;\nfunction u() {}", 0, 900>> @@
    901 :> <<"hF", "FunctionDeclaration", 900, "body", <<902, 903>>, 0, 15, "function a() {}", 1, 900>> @@
    902 :> <<"hF", "Identifier", 901, "id", <<>>, 9, 10, "a", 2, 901>> @@
    903 :> <<"hF", "BlockStatement", 901, "body", <<>>, 13, 15, "{}", 3, 901>> @@
    904 :> <<"hF", "ExpressionStatement", 900, "body", <<905>>, 16, 23, "a = {};", 4, 900>> @@
    905 :> <<"hF", "AssignmentExpression", 904, "expression", <<906, 907>>, 16, 22, "a = {}", 5, 900>> @@
    906 :> <<"hF", "Identifier", 905, "left", <<>>, 16, 17, "a", 6, 900>> @@
    907 :> <<"hF", "ObjectExpression", 905, "right", <<>>, 20, 22, "{}", 7, 900>> @@
    908 :> <<"hF", "ExpressionStatement", 900, "body", <<909>>, 24, 30, "a = 3;", 8, 900>> @@
    909 :> <<"hF", "AssignmentExpression", 908, "expression", <<910, 911>>, 24, 29, "a = 3", 9, 900>> @@
    910 :> <<"hF", "Identifier", 909, "left", <<>>, 24, 25, "a", 10, 900>> @@
    911 :> <<"hF", "Literal", 909, "right", <<>>, 28, 29, "3", 11, 900>> @@
    912 :> <<"hF", "FunctionDeclaration", 900, "body", <<913, 914>>, 31, 46, "function u() {}", 12, 900>> @@
    913 :> <<"hF", "Identifier", 912, "id", <<>>, 40, 41, "u", 13, 912>> @@
    914 :> <<"hF", "BlockStatement", 912, "body", <<>>, 44, 46, "{}", 14, 912>> @@
    1000 :> <<"hA", "Program", -1, "", <<1001, 1008, 1025>>, 0, 102, "var arr = [1,2,3];(function(a,n){a.push(a.shift())})(arr,1);(function(a,n){a.push(a.shift())})(arr,1);", 0, 1000>> @@
    1001 :> <<"hA", "VariableDeclaration", 1000, "body", <<1002>>, 0, 18, "var arr = [1,2,3];", 1, 1000>> @@
    1002 :> <<"hA", "VariableDeclarator", 1001, "declarations", <<1003, 1004>>, 4, 17, "arr = [1,2,3]", 2, 1000>> @@
    1003 :> <<"hA", "Identifier", 1002, "id", <<>>, 4, 7, "arr", 3, 1000>> @@
    1004 :> <<"hA", "ArrayExpression", 1002, "init", <<1005, 1006, 1007>>, 10, 17, "[1,2,3]", 4, 1000>> @@
    1005 :> <<"hA", "Literal", 1004, "elements", <<>>, 11, 12, "1", 5, 1000>> @@
    1006 :> <<"hA", "Literal", 1004, "elements", <<>>, 13, 14, "2", 6, 1000>> @@
    1007 :> <<"hA", "Literal", 1004, "elements", <<>>, 15, 16, "3", 7, 1000>> @@
    1008 :> <<"hA", "ExpressionStatement", 1000, "body", <<1009>>, 18, 60, "(function(a,n){a.push(a.shift())})(arr,1);", 8, 1000>> @@
    1009 :> <<"hA", "CallExpression", 1008, "expression", <<1010, 1023, 1024>>, 18, 59, "(function(a,n){a.push(a.shift())})(arr,1)", 9, 1000>> @@
    1010 :> <<"hA", "FunctionExpression", 1009, "callee", <<1011, 1012, 1013>>, 19, 51, "function(a,n){a.push(a.shift())}", 10, 1000>> @@
    1011 :> <<"hA", "Identifier", 1010, "params", <<>>, 28, 29, "a", 11, 1010>> @@
    1012 :> <<"hA", "Identifier", 1010, "params", <<>>, 30, 31, "n", 12, 1010>> @@
    1013 :> <<"hA", "BlockStatement", 1010, "body", <<1014>>, 32, 51, "{a.push(a.shift())}", 13, 1010>> @@
    1014 :> <<"hA", "ExpressionStatement", 1013, "body", <<1015>>, 33, 50, "a.push(a.shift())", 14, 1010>> @@
    1015 :> <<"hA", "CallExpression", 1014, "expression", <<1016, 1019>>, 33, 50, "a.push(a.shift())", 15, 1010>> @@
    1016 :> <<"hA", "MemberExpression", 1015, "callee", <<1017, 1018>>, 33, 39, "a.push", 16, 1010>> @@
    1017 :> <<"hA", "Identifier", 1016, "object", <<>>, 33, 34, "a", 17, 1010>> @@
    1018 :> <<"hA", "Identifier", 1016, "property", <<>>, 35, 39, "push", 18, 1010>> @@
    1019 :> <<"hA", "CallExpression", 1015, "arguments", <<1020>>, 40, 49, "a.shift()", 19, 1010>> @@
    1020 :> <<"hA", "MemberExpression", 1019, "callee", <<1021, 1022>>, 40, 47, "a.shift", 20, 1010>> @@
    1021 :> <<"hA", "Identifier", 1020, "object", <<>>, 40, 41, "a", 21, 1010>> @@
    1022 :> <<"hA", "Identifier", 1020, "property", <<>>, 42, 47, "shift", 22, 1010>> @@
    1023 :> <<"hA", "Identifier", 1009, "arguments", <<>>, 53, 56, "arr", 23, 1000>> @@
    1024 :> <<"hA", "Literal", 1009, "arguments", <<>>, 57, 58, "1", 24, 1000>> @@
    1025 :> <<"hA", "ExpressionStatement", 1000, "body", <<1026>>, 60, 102, "(function(a,n){a.push(a.shift())})(arr,1);", 25, 1000>> @@
    1026 :> <<"hA", "CallExpression", 1025, "expression", <<1027, 1040, 1041>>, 60, 101, "(function(a,n){a.push(a.shift())})(arr,1)", 26, 1000>> @@
    1027 :> <<"hA", "FunctionExpression", 1026, "callee", <<1028, 1029, 1030>>, 61, 93, "function(a,n){a.push(a.shift())}", 27, 1000>> @@
    1028 :> <<"hA", "Identifier", 1027, "params", <<>>, 70, 71, "a", 28, 1027>> @@
    1029 :> <<"hA", "Identifier", 1027, "params", <<>>, 72, 73, "n", 29, 1027>> @@
    1030 :> <<"hA", "BlockStatement", 1027, "body", <<1031>>, 74, 93, "{a.push(a.shift())}", 30, 1027>> @@
    1031 :> <<"hA", "ExpressionStatement", 1030, "body", <<1032>>, 75, 92, "a.push(a.shift())", 31, 1027>> @@
    1032 :> <<"hA", "CallExpression", 1031, "expression", <<1033, 1036>>, 75, 92, "a.push(a.shift())", 32, 1027>> @@
    1033 :> <<"hA", "MemberExpression", 1032, "callee", <<1034, 1035>>, 75, 81, "a.push", 33, 1027>> @@
    1034 :> <<"hA", "Identifier", 1033, "object", <<>>, 75, 76, "a", 34, 1027>> @@
    1035 :> <<"hA", "Identifier", 1033, "property", <<>>, 77, 81, "push", 35, 1027>> @@
    1036 :> <<"hA", "CallExpression", 1032, "arguments", <<1037>>, 82, 91, "a.shift()", 36, 1027>> @@
    1037 :> <<"hA", "MemberExpression", 1036, "callee", <<1038, 1039>>, 82, 89, "a.shift", 37, 1027>> @@
    1038 :> <<"hA", "Identifier", 1037, "object", <<>>, 82, 83, "a", 38, 1027>> @@
    1039 :> <<"hA", "Identifier", 1037, "property", <<>>, 84, 89, "shift", 39, 1027>> @@
    1040 :> <<"hA", "Identifier", 1026, "arguments", <<>>, 95, 98, "arr", 40, 1000>> @@
    1041 :> <<"hA", "Literal", 1026, "arguments", <<>>, 99, 100, "1", 41, 1000>> @@
    1100 :> <<"hB", "Program", -1, "", <<1101, 1104, 1111>>, 0, 64, "var arr;arr = [1,2,3];(function(a,n){a.push(a.shift())})(arr,1);", 0, 1100>> @@
    1101 :> <<"hB", "VariableDeclaration", 1100, "body", <<1102>>, 0, 8, "var arr;", 1, 1100>> @@
    1102 :> <<"hB", "VariableDeclarator", 1101, "declarations", <<1103>>, 4, 7, "arr", 2, 1100>> @@
    1103 :> <<"hB", "Identifier", 1102, "id", <<>>, 4, 7, "arr", 3, 1100>> @@
    1104 :> <<"hB", "ExpressionStatement", 1100, "body", <<1105>>, 8, 22, "arr = [1,2,3];", 4, 1100>> @@
    1105 :> <<"hB", "AssignmentExpression", 1104, "expression", <<1106, 1107>>, 8, 21, "arr = [1,2,3]", 5, 1100>> @@
    1106 :> <<"hB", "Identifier", 1105, "left", <<>>, 8, 11, "arr", 6, 1100>> @@
    1107 :> <<"hB", "ArrayExpression", 1105, "right", <<1108, 1109, 1110>>, 14, 21, "[1,2,3]", 7, 1100>> @@
    1108 :> <<"hB", "Literal", 1107, "elements", <<>>, 15, 16, "1", 8, 1100>> @@
    1109 :> <<"hB", "Literal", 1107, "elements", <<>>, 17, 18, "2", 9, 1100>> @@
    1110 :> <<"hB", "Literal", 1107, "elements", <<>>, 19, 20, "3", 10, 1100>> @@
    1111 :> <<"hB", "ExpressionStatement", 1100, "body", <<1112>>, 22, 64, "(function(a,n){a.push(a.shift())})(arr,1);", 11, 1100>> @@
    1112 :> <<"hB", "CallExpression", 1111, "expression", <<1113, 1126, 1127>>, 22, 63, "(function(a,n){a.push(a.shift())})(arr,1)", 12, 1100>> @@
    1113 :> <<"hB", "FunctionExpression", 1112, "callee", <<1114, 1115, 1116>>, 23, 55, "function(a,n){a.push(a.shift())}", 13, 1100>> @@
    1114 :> <<"hB", "Identifier", 1113, "params", <<>>, 32, 33, "a", 14, 1113>> @@
    1115 :> <<"hB", "Identifier", 1113, "params", <<>>, 34, 35, "n", 15, 1113>> @@
    1116 :> <<"hB", "BlockStatement", 1113, "body", <<1117>>, 36, 55, "{a.push(a.shift())}", 16, 1113>> @@
    1117 :> <<"hB", "ExpressionStatement", 1116, "body", <<1118>>, 37, 54, "a.push(a.shift())", 17, 1113>> @@
    1118 :> <<"hB", "CallExpression", 1117, "expression", <<1119, 1122>>, 37, 54, "a.push(a.shift())", 18, 1113>> @@
    1119 :> <<"hB", "MemberExpression", 1118, "callee", <<1120, 1121>>, 37, 43, "a.push", 19, 1113>> @@
    1120 :> <<"hB", "Identifier", 1119, "object", <<>>, 37, 38, "a", 20, 1113>> @@
    1121 :> <<"hB", "Identifier", 1119, "property", <<>>, 39, 43, "push", 21, 1113>> @@
    1122 :> <<"hB", "CallExpression", 1118, "arguments", <<1123>>, 44, 53, "a.shift()", 22, 1113>> @@
    1123 :> <<"hB", "MemberExpression", 1122, "callee", <<1124, 1125>>, 44, 51, "a.shift", 23, 1113>> @@
    1124 :> <<"hB", "Identifier", 1123, "object", <<>>, 44, 45, "a", 24, 1113>> @@
    1125 :> <<"hB", "Identifier", 1123, "property", <<>>, 46, 51, "shift", 25, 1113>> @@
    1126 :> <<"hB", "Identifier", 1112, "arguments", <<>>, 57, 60, "arr", 26, 1100>> @@
    1127 :> <<"hB", "Literal", 1112, "arguments", <<>>, 61, 62, "1", 27, 1100>> @@
    1200 :> <<"hG", "Program", -1, "", <<1201, 1207, 1224, 1230>>, 0, 120, "var arr = [1,2];(function(a,n){a.push(Math.random())})(arr,1);var brr = [4,5];(function(a,n){a.push(a.shift())})(brr,1);", 0, 1200>> @@
    1201 :> <<"hG", "VariableDeclaration", 1200, "body", <<1202>>, 0, 16, "var arr = [1,2];", 1, 1200>> @@
    1202 :> <<"hG", "VariableDeclarator", 1201, "declarations", <<1203, 1204>>, 4, 15, "arr = [1,2]", 2, 1200>> @@
    1203 :> <<"hG", "Identifier", 1202, "id", <<>>, 4, 7, "arr", 3, 1200>> @@
    1204 :> <<"hG", "ArrayExpression", 1202, "init", <<1205, 1206>>, 10, 15, "[1,2]", 4, 1200>> @@
    1205 :> <<"hG", "Literal", 1204, "elements", <<>>, 11, 12, "1", 5, 1200>> @@
    1206 :> <<"hG", "Literal", 1204, "elements", <<>>, 13, 14, "2", 6, 1200>> @@
    1207 :> <<"hG", "ExpressionStatement", 1200, "body", <<1208>>, 16, 62, "(function(a,n){a.push(Math.random())})(arr,1);", 7, 1200>> @@
    1208 :> <<"hG", "CallExpression", 1207, "expression", <<1209, 1222, 1223>>, 16, 61, "(function(a,n){a.push(Math.random())})(arr,1)", 8, 1200>> @@
    1209 :> <<"hG", "FunctionExpression", 1208, "callee", <<1210, 1211, 1212>>, 17, 53, "function(a,n){a.push(Math.random())}", 9, 1200>> @@
    1210 :> <<"hG", "Identifier", 1209, "params", <<>>, 26, 27, "a", 10, 1209>> @@
    1211 :> <<"hG", "Identifier", 1209, "params", <<>>, 28, 29, "n", 11, 1209>> @@
    1212 :> <<"hG", "BlockStatement", 1209, "body", <<1213>>, 30, 53, "{a.push(Math.random())}", 12, 1209>> @@
    1213 :> <<"hG", "ExpressionStatement", 1212, "body", <<1214>>, 31, 52, "a.push(Math.random())", 13, 1209>> @@
    1214 :> <<"hG", "CallExpression", 1213, "expression", <<1215, 1218>>, 31, 52, "a.push(Math.random())", 14, 1209>> @@
    1215 :> <<"hG", "MemberExpression", 1214, "callee", <<1216, 1217>>, 31, 37, "a.push", 15, 1209>> @@
    1216 :> <<"hG", "Identifier", 1215, "object", <<>>, 31, 32, "a", 16, 1209>> @@
    1217 :> <<"hG", "Identifier", 1215, "property", <<>>, 33, 37, "push", 17, 1209>> @@
    1218 :> <<"hG", "CallExpression", 1214, "arguments", <<1219>>, 38, 51, "Math.random()", 18, 1209>> @@
    1219 :> <<"hG", "MemberExpression", 1218, "callee", <<1220, 1221>>, 38, 49, "Math.random", 19, 1209>> @@
    1220 :> <<"hG", "Identifier", 1219, "object", <<>>, 38, 42, "Math", 20, 1209>> @@
    1221 :> <<"hG", "Identifier", 1219, "property", <<>>, 43, 49, "random", 21, 1209>> @@
    1222 :> <<"hG", "Identifier", 1208, "arguments", <<>>, 55, 58, "arr", 22, 1200>> @@
    1223 :> <<"hG", "Literal", 1208, "arguments", <<>>, 59, 60, "1", 23, 1200>> @@
    1224 :> <<"hG", "VariableDeclaration", 1200, "body", <<1225>>, 62, 78, "var brr = [4,5];", 24, 1200>> @@
    1225 :> <<"hG", "VariableDeclarator", 1224, "declarations", <<1226, 1227>>, 66, 77, "brr = [4,5]", 25, 1200>> @@
    1226 :> <<"hG", "Identifier", 1225, "id", <<>>, 66, 69, "brr", 26, 1200>> @@
    1227 :> <<"hG", "ArrayExpression", 1225, "init", <<1228, 1229>>, 72, 77, "[4,5]", 27, 1200>> @@
    1228 :> <<"hG", "Literal", 1227, "elements", <<>>, 73, 74, "4", 28, 1200>> @@
    1229 :> <<"hG", "Literal", 1227, "elements", <<>>, 75, 76, "5", 29, 1200>> @@
    1230 :> <<"hG", "ExpressionStatement", 1200, "body", <<1231>>, 78, 120, "(function(a,n){a.push(a.shift())})(brr,1);", 30, 1200>> @@
    1231 :> <<"hG", "CallExpression", 1230, "expression", <<1232, 1245, 1246>>, 78, 119, "(function(a,n){a.push(a.shift())})(brr,1)", 31, 1200>> @@
    1232 :> <<"hG", "FunctionExpression", 1231, "callee", <<1233, 1234, 1235>>, 79, 111, "function(a,n){a.push(a.shift())}", 32, 1200>> @@
    1233 :> <<"hG", "Identifier", 1232, "params", <<>>, 88, 89, "a", 33, 1232>> @@
    1234 :> <<"hG", "Identifier", 1232, "params", <<>>, 90, 91, "n", 34, 1232>> @@
    1235 :> <<"hG", "BlockStatement", 1232, "body", <<1236>>, 92, 111, "{a.push(a.shift())}", 35, 1232>> @@
    1236 :> <<"hG", "ExpressionStatement", 1235, "body", <<1237>>, 93, 110, "a.push(a.shift())", 36, 1232>> @@
    1237 :> <<"hG", "CallExpression", 1236, "expression", <<1238, 1241>>, 93, 110, "a.push(a.shift())", 37, 1232>> @@
    1238 :> <<"hG", "MemberExpression", 1237, "callee", <<1239, 1240>>, 93, 99, "a.push", 38, 1232>> @@
    1239 :> <<"hG", "Identifier", 1238, "object", <<>>, 93, 94, "a", 39, 1232>> @@
    1240 :> <<"hG", "Identifier", 1238, "property", <<>>, 95, 99, "push", 40, 1232>> @@
    1241 :> <<"hG", "CallExpression", 1237, "arguments", <<1242>>, 100, 109, "a.shift()", 41, 1232>> @@
    1242 :> <<"hG", "MemberExpression", 1241, "callee", <<1243, 1244>>, 100, 107, "a.shift", 42, 1232>> @@
    1243 :> <<"hG", "Identifier", 1242, "object", <<>>, 100, 101, "a", 43, 1232>> @@
    1244 :> <<"hG", "Identifier", 1242, "property", <<>>, 102, 107, "shift", 44, 1232>> @@
    1245 :> <<"hG", "Identifier", 1231, "arguments", <<>>, 113, 116, "brr", 45, 1200>> @@
    1246 :> <<"hG", "Literal", 1231, "arguments", <<>>, 117, 118, "1", 46, 1200>>

\* The fields of a node that are not given in its row of NodeRows.
NodeFields ==
    0 :> [through |-> <<6, 19>>] @@
    1 :> [kind |-> "var"] @@
    3 :> [name |-> "x", refs |-> <<12, 44>>] @@
    6 :> [name |-> "a"] @@
    8 :> [fnHit |-> TRUE, fnPre |-> "(", fnPost |-> "(p){})(x)"] @@
    9 :> [fnHit |-> TRUE, fnPre |-> "", fnPost |-> "(p){}"] @@
    10 :> [name |-> "p"] @@
    12 :> [name |-> "x", declNode |-> 3] @@
    14 :> [fnHit |-> TRUE, fnPre |-> "(", fnPost |-> "(){})()"] @@
    15 :> [fnHit |-> TRUE, fnPre |-> "", fnPost |-> "(){}"] @@
    19 :> [name |-> "b"] @@
    21 :> [fnHit |-> TRUE, fnPre |-> "(", fnPost |-> "(){})()"] @@
    22 :> [fnHit |-> TRUE, fnPre |-> "", fnPost |-> "(){}"] @@
    24 :> [kind |-> "var"] @@
    26 :> [name |-> "f"] @@
    27 :> [fnHit |-> TRUE, fnPre |-> "", fnPost |-> "(){}"] @@
    31 :> [fnHit |-> TRUE, fnPre |-> "", fnPost |-> "(){}()"] @@
    32 :> [fnHit |-> TRUE, fnPre |-> "", fnPost |-> "(){}"] @@
    34 :> [kind |-> "var"] @@
    36 :> [name |-> "m"] @@
    39 :> [name |-> "g"] @@
    40 :> [parses |-> FALSE] @@
    44 :> [name |-> "x", declNode |-> 3] @@
    45 :> [value |-> "1"] @@
    102 :> [name |-> "a", refs |-> <<108, 111>>] @@
    105 :> [value |-> "1"] @@
    108 :> [name |-> "a", declNode |-> 102] @@
    111 :> [name |-> "a", declNode |-> 102] @@
    201 :> [kind |-> "let"] @@
    203 :> [name |-> "a", refs |-> <<216>>] @@
    204 :> [value |-> "1"] @@
    206 :> [name |-> "b", refs |-> <<215>>] @@
    207 :> [name |-> "arg", refs |-> <<211>>] @@
    211 :> [name |-> "arg", declNode |-> 207] @@
    212 :> [value |-> "3"] @@
    215 :> [name |-> "b", declNode |-> 206] @@
    216 :> [name |-> "a", declNode |-> 203] @@
    802 :> [name |-> "a", refs |-> <<808>>] @@
    805 :> [value |-> "2"] @@
    808 :> [name |-> "a", declNode |-> 802] @@
    502 :> [name |-> "a", refs |-> <<506, 511, 516, 520, 522>>] @@
    506 :> [name |-> "a", declNode |-> 502] @@
    511 :> [name |-> "a", declNode |-> 502] @@
    512 :> [name |-> "b"] @@
    513 :> [value |-> "2"] @@
    516 :> [name |-> "a", declNode |-> 502] @@
    520 :> [name |-> "a", declNode |-> 502] @@
    522 :> [name |-> "a", declNode |-> 502] @@
    523 :> [name |-> "b"] @@
    902 :> [name |-> "a", refs |-> <<906, 910>>] @@
    906 :> [name |-> "a", declNode |-> 902] @@
    910 :> [name |-> "a", declNode |-> 902] @@
    911 :> [value |-> "3"] @@
    913 :> [name |-> "u"] @@
    1001 :> [kind |-> "var"] @@
    1003 :> [name |-> "arr", refs |-> <<1023, 1040>>] @@
    1005 :> [value |-> "1"] @@
    1006 :> [value |-> "2"] @@
    1007 :> [value |-> "3"] @@
    1009 :> [fnHit |-> TRUE, fnPre |-> "(", fnPost |-> "(a,n){a.push(a.shift())})(arr,1)"] @@
    1010 :> [fnHit |-> TRUE, fnPre |-> "", fnPost |-> "(a,n){a.push(a.shift())}"] @@
    1011 :> [name |-> "a", refs |-> <<1017, 1021>>] @@
    1012 :> [name |-> "n"] @@
    1017 :> [name |-> "a", declNode |-> 1011] @@
    1018 :> [name |-> "push"] @@
    1021 :> [name |-> "a", declNode |-> 1011] @@
    1022 :> [name |-> "shift"] @@
    1023 :> [name |-> "arr", declNode |-> 1003] @@
    1024 :> [value |-> "1"] @@
    1026 :> [fnHit |-> TRUE, fnPre |-> "(", fnPost |-> "(a,n){a.push(a.shift())})(arr,1)"] @@
    1027 :> [fnHit |-> TRUE, fnPre |-> "", fnPost |-> "(a,n){a.push(a.shift())}"] @@
    1028 :> [name |-> "a", refs |-> <<1034, 1038>>] @@
    1029 :> [name |-> "n"] @@
    1034 :> [name |-> "a", declNode |-> 1028] @@
    1035 :> [name |-> "push"] @@
    1038 :> [name |-> "a", declNode |-> 1028] @@
    1039 :> [name |-> "shift"] @@
    1040 :> [name |-> "arr", declNode |-> 1003] @@
    1041 :> [value |-> "1"] @@
    1101 :> [kind |-> "var"] @@
    1103 :> [name |-> "arr", refs |-> <<1106, 1126>>] @@
    1106 :> [name |-> "arr", declNode |-> 1103] @@
    1108 :> [value |-> "1"] @@
    1109 :> [value |-> "2"] @@
    1110 :> [value |-> "3"] @@
    1112 :> [fnHit |-> TRUE, fnPre |-> "(", fnPost |-> "(a,n){a.push(a.shift())})(arr,1)"] @@
    1113 :> [fnHit |-> TRUE, fnPre |-> "", fnPost |-> "(a,n){a.push(a.shift())}"] @@
    1114 :> [name |-> "a", refs |-> <<1120, 1124>>] @@
    1115 :> [name |-> "n"] @@
    1120 :> [name |-> "a", declNode |-> 1114] @@
    1121 :> [name |-> "push"] @@
    1124 :> [name |-> "a", declNode |-> 1114] @@
    1125 :> [name |-> "shift"] @@
    1126 :> [name |-> "arr", declNode |-> 1103] @@
    1127 :> [value |-> "1"] @@
    1200 :> [through |-> <<1220>>] @@
    1201 :> [kind |-> "var"] @@
    1203 :> [name |-> "arr", refs |-> <<1222>>] @@
    1205 :> [value |-> "1"] @@
    1206 :> [value |-> "2"] @@
    1208 :> [fnHit |-> TRUE, fnPre |-> "(", fnPost |-> "(a,n){a.push(Math.random())})(arr,1)"] @@
    1209 :> [through |-> <<1220>>, fnHit |-> TRUE, fnPre |-> "", fnPost |-> "(a,n){a.push(Math.random())}"] @@
    1210 :> [name |-> "a", refs |-> <<1216>>] @@
    1211 :> [name |-> "n"] @@
    1216 :> [name |-> "a", declNode |-> 1210] @@
    1217 :> [name |-> "push"] @@
    1220 :> [name |-> "Math"] @@
    1221 :> [name |-> "random"] @@
    1222 :> [name |-> "arr", declNode |-> 1203] @@
    1223 :> [value |-> "1"] @@
    1224 :> [kind |-> "var"] @@
    1226 :> [name |-> "brr", refs |-> <<1245>>] @@
    1228 :> [value |-> "4"] @@
    1229 :> [value |-> "5"] @@
    1231 :> [fnHit |-> TRUE, fnPre |-> "(", fnPost |-> "(a,n){a.push(a.shift())})(brr,1)"] @@
    1232 :> [fnHit |-> TRUE, fnPre |-> "", fnPost |-> "(a,n){a.push(a.shift())}"] @@
    1233 :> [name |-> "a", refs |-> <<1239, 1243>>] @@
    1234 :> [name |-> "n"] @@
    1239 :> [name |-> "a", declNode |-> 1233] @@
    1240 :> [name |-> "push"] @@
    1243 :> [name |-> "a", declNode |-> 1233] @@
    1244 :> [name |-> "shift"] @@
    1245 :> [name |-> "brr", declNode |-> 1226] @@
    1246 :> [value |-> "1"]

\* The nodes of all scripts, by node id.
AST ==
    [n \in DOMAIN NodeRows |->
        IF n \in DOMAIN NodeFields THEN NodeFields[n] @@ Node(NodeRows[n])
        ELSE Node(NodeRows[n])]

Nodes == DOMAIN AST

\* The children of n under one key of n, in source order.
KidsAt(n, key) == SelectSeq(AST[n].kids, LAMBDA k : AST[k].parentKey = key)
\* node.<key> for a key that holds one node; -1 when absent.
KidAt(n, key) == IF KidsAt(n, key) = <<>> THEN -1 ELSE KidsAt(n, key)[1]

(***************************************************************************)
(* Script-scoped cache: src/src/modules/utils/getCache.js                  *)
(***************************************************************************)
\* The JavaScript values null and undefined, as arguments of getCache.
NullId == "#null"
UndefId == "#undefined"

\* Script identities callers pass: two real hashes, the two absent values and
\* the literal text of the fallback identity.
ScriptIds == {"h1", "h2", NullId, UndefId, "no-hash"}

\* Keys clients write into the mapping.
ClientKeys == {"k1", "k2"}

\* const scriptHash = currentScriptHash ?? 'no-hash';
NormalizeHash(id) == IF id \in {NullId, UndefId} THEN "no-hash" ELSE id

EmptyMapping == [k \in {} |-> 0]

\* if (scriptHash !== RELEVANT_SCRIPT_HASH) { ... CACHE = {} }: the mapping
\* object the call returns, a fresh one when the identity changes.
GetCacheObjMut(id, owner, cur, fresh) == fresh
GetCacheObjKeep(id, owner, cur, fresh) == cur
GetCacheObj(id, owner, cur, fresh) ==
    IF NormalizeHash(id) # owner THEN fresh ELSE cur

\* The identity that owns the mapping after getCache(id).
GetCacheOwner(id, owner) ==
    IF NormalizeHash(id) # owner THEN NormalizeHash(id) ELSE owner

\* The record of a getCache call put before the one kept of the earlier calls.
Called(id, obj, size) ==
    SubSeq(<<[arg |-> id,
              obj |-> obj,
              residentBefore |-> CACHE,
              ownerBefore |-> RELEVANT_SCRIPT_HASH,
              ownerAfter |-> GetCacheOwner(id, RELEVANT_SCRIPT_HASH),
              size |-> size,
              afterFlush |-> flushedSince]>> \o calls, 1,
           IF Len(calls) = 0 THEN 1 ELSE 2)

\* getCache(currentScriptHash), with what the caller observes of the call.
GetCache(id) ==
    LET fresh == Cardinality(DOMAIN heap)
        obj == GetCacheObj(id, RELEVANT_SCRIPT_HASH, CACHE, fresh)
        heap1 == IF obj \in DOMAIN heap THEN heap ELSE (obj :> EmptyMapping) @@ heap
    IN /\ obj \in DOMAIN heap \/ Cardinality(DOMAIN heap) < MaxObjs
       /\ RELEVANT_SCRIPT_HASH' = GetCacheOwner(id, RELEVANT_SCRIPT_HASH)
       /\ CACHE' = obj
       /\ heap' = heap1
       /\ calls' = Called(id, obj, Cardinality(DOMAIN heap1[obj]))
       /\ flushedSince' = FALSE

\* getCache.flush(): CACHE = {}; RELEVANT_SCRIPT_HASH is left alone.
FlushForgetOwner ==
    LET fresh == Cardinality(DOMAIN heap)
    IN /\ Cardinality(DOMAIN heap) < MaxObjs
       /\ CACHE' = fresh
       /\ heap' = (fresh :> EmptyMapping) @@ heap
       /\ flushedSince' = TRUE
       /\ RELEVANT_SCRIPT_HASH' = NullId
       /\ UNCHANGED calls
Flush ==
    LET fresh == Cardinality(DOMAIN heap)
    IN /\ Cardinality(DOMAIN heap) < MaxObjs
       /\ CACHE' = fresh
       /\ heap' = (fresh :> EmptyMapping) @@ heap
       /\ flushedSince' = TRUE
       /\ UNCHANGED <<RELEVANT_SCRIPT_HASH, calls>>

\* A client writes cache[k] = <data of its script> through a handle that one
\* of its last two getCache calls returned (the usage pattern of line 19).
WriteEntry(i, k) ==
    /\ i \in 1..Len(calls)
    /\ heap' = [heap EXCEPT ![calls[i].obj] =
                    (k :> [by |-> NormalizeHash(calls[i].arg)]) @@ @]
    /\ UNCHANGED <<RELEVANT_SCRIPT_HASH, CACHE, calls, flushedSince>>

CacheInit ==
    /\ RELEVANT_SCRIPT_HASH = NullId      \* let RELEVANT_SCRIPT_HASH = null
    /\ CACHE = 0                          \* let CACHE = {}
    /\ heap = (0 :> EmptyMapping)
    /\ calls = <<>>
    /\ flushedSince = FALSE

DoGetCache == (\E id \in ScriptIds : GetCache(id)) /\ UNCHANGED notCache
DoFlush == Flush /\ UNCHANGED notCache
DoWrite == (\E i \in 1..2, k \in ClientKeys : WriteEntry(i, k)) /\ UNCHANGED notCache

CacheNext == DoGetCache \/ DoFlush \/ DoWrite

(***************************************************************************)
(* Source reconstructor: src/src/modules/utils/createOrderedSrc.js         *)
(***************************************************************************)
\* const LARGE_NUMBER = 999e8, as one unit of the hi part of a nodeId.
LARGE_NUMBER == [hi |-> 1, lo |-> 0]
Num(n) == [hi |-> 0, lo |-> n]
Plus(a, b) == [hi |-> a.hi + b.hi, lo |-> a.lo + b.lo]
Greater(a, b) == a.hi > b.hi \/ (a.hi = b.hi /\ a.lo > b.lo)

\* The decimal text of a nodeId, as string concatenation prints it
\* (999e8 = 999 followed by eight digits).
Pad8(n) ==
    CASE n < 10 -> "0000000" \o ToString(n)
      [] n < 100 -> "000000" \o ToString(n)
      [] n < 1000 -> "00000" \o ToString(n)
      [] n < 10000 -> "0000" \o ToString(n)
      [] n < 100000 -> "000" \o ToString(n)
      [] n < 1000000 -> "00" \o ToString(n)
      [] n < 10000000 -> "0" \o ToString(n)
      [] OTHER -> ToString(n)
NumText(a) ==
    IF a.hi = 0 THEN ToString(a.lo)
    ELSE ToString(a.hi * 999 + a.lo \div 100000000) \o Pad8(a.lo % 100000000)

\* const TYPES_REQUIRING_SEMICOLON
TYPES_REQUIRING_SEMICOLON == {"VariableDeclarator", "AssignmentExpression"}

\* An element of a node array: a node of the tree (uid = 0), or the node that
\* addNameToFE parsed from the patched text of node ref while index uid of the
\* array was handled (a new object at every call of addNameToFE).
TreeNode(n) == [ref |-> n, uid |-> 0, nid |-> Num(0), src |-> ""]
NoNode == [ref |-> -1, uid |-> 0, nid |-> Num(0), src |-> ""]
IsTreeNode(e) == e.uid = 0
TypeOf(e) == IF IsTreeNode(e) THEN AST[e.ref].type ELSE "Program"
SrcOf(e) == IF IsTreeNode(e) THEN AST[e.ref].src ELSE e.src
NodeIdOf(e, ids) == IF IsTreeNode(e) THEN ids[e.ref] ELSE e.nid

\* const sortByNodeId = (a, b) => a.nodeId > b.nodeId ? 1 : b.nodeId > a.nodeId ? -1 : 0
sortByNodeId(a, b, ids) ==
    IF Greater(NodeIdOf(a, ids), NodeIdOf(b, ids)) THEN 1
    ELSE IF Greater(NodeIdOf(b, ids), NodeIdOf(a, ids)) THEN -1 ELSE 0

\* processedNodes.sort(sortByNodeId); Array.prototype.sort is stable.
RECURSIVE InsertSorted(_, _, _)
InsertSorted(sorted, e, ids) ==
    IF sorted = <<>> THEN <<e>>
    ELSE IF sortByNodeId(sorted[Len(sorted)], e, ids) = 1
         THEN Append(InsertSorted(SubSeq(sorted, 1, Len(sorted) - 1), e, ids),
                     sorted[Len(sorted)])
         ELSE Append(sorted, e)

RECURSIVE SortNodes(_, _)
SortNodes(s, ids) ==
    IF s = <<>> THEN <<>>
    ELSE InsertSorted(SortNodes(SubSeq(s, 1, Len(s) - 1), ids), s[Len(s)], ids)

\* addNameToFE(n, name): the node parsed from the patched text, or NoNode
\* (null) when the patched text does not parse.  name = "" is an absent name.
addNameToFE(n, name, ids, i) ==
    LET nm == IF name # "" THEN name ELSE "func" \o NumText(ids[n])
        replaced == IF AST[n].fnHit
                    THEN AST[n].fnPre \o "function " \o nm \o AST[n].fnPost
                    ELSE AST[n].src
        funcSrc == "(" \o replaced \o ");"
    IN IF AST[n].parses
       THEN [ref |-> n, uid |-> i, nid |-> ids[n], src |-> funcSrc]
       ELSE NoNode

\* n.parentNode?.id?.name
ParentIdName(n) ==
    IF AST[n].parent = -1 \/ KidAt(AST[n].parent, "id") = -1 THEN ""
    ELSE AST[KidAt(AST[n].parent, "id")].name

\* The loop over the arguments of an IIFE: the largest nodeId of the
\* declarations its arguments resolve to, 0 when there is none.
RECURSIVE MaxArgNodeId(_, _, _)
MaxArgNodeId(args, ids, max) ==
    IF args = <<>> THEN max
    ELSE LET d == AST[args[1]].declNode
         IN MaxArgNodeId(Tail(args), ids,
                IF d # -1 /\ Greater(ids[d], max) THEN ids[d] ELSE max)

\* currentNode.nodeId = maxArgNodeId ? maxArgNodeId + 1 : currentNode.nodeId + LARGE_NUMBER
IIFENodeIdTie(maxArg, own) == IF maxArg # Num(0) THEN maxArg ELSE Plus(own, LARGE_NUMBER)
IIFENodeId(maxArg, own) ==
    IF maxArg # Num(0) THEN Plus(maxArg, Num(1)) ELSE Plus(own, LARGE_NUMBER)

\* One round of the first loop for nodes[i] = e: the node that takes its place
\* (currentNode) and the nodeIds afterwards.
\* Lines 86-91: the named function replaces the call and is pushed to the end.
UseNamedCall(namedFunc, e) ==
    IF namedFunc # NoNode THEN [namedFunc EXCEPT !.nid = Plus(@, LARGE_NUMBER)] ELSE e

\* Lines 97-101: the named function replaces the anonymous function expression.
UseNamedFE(namedFunc, e) == IF namedFunc # NoNode THEN namedFunc ELSE e

\* Lines 66-82 for the call whose parent p is an ExpressionStatement.
HandleStatementCall(p, ids, preserveOrder) ==
    IF ~preserveOrder
       /\ AST[KidAt(KidAt(p, "expression"), "callee")].type = "FunctionExpression"
    THEN [node |-> TreeNode(p),
          ids |-> [ids EXCEPT ![p] =
              IIFENodeId(MaxArgNodeId(KidsAt(KidAt(p, "expression"), "arguments"),
                                      ids, Num(0)),
                         ids[p])]]
    ELSE [node |-> TreeNode(p), ids |-> ids]

HandleNode(e, i, ids, preserveOrder) ==
    IF ~IsTreeNode(e) THEN [node |-> e, ids |-> ids]
    ELSE IF AST[e.ref].type = "CallExpression"
    THEN IF AST[AST[e.ref].parent].type = "ExpressionStatement"
         THEN HandleStatementCall(AST[e.ref].parent, ids, preserveOrder)
         ELSE IF AST[KidAt(e.ref, "callee")].type = "FunctionExpression" /\ ~preserveOrder
              THEN [node |-> UseNamedCall(addNameToFE(e.ref, ParentIdName(e.ref), ids, i), e),
                    ids |-> ids]
              ELSE [node |-> e, ids |-> ids]
    ELSE IF AST[e.ref].type = "FunctionExpression" /\ KidAt(e.ref, "id") = -1
    THEN [node |-> UseNamedFE(addNameToFE(e.ref, ParentIdName(e.ref), ids, i), e),
          ids |-> ids]
    ELSE [node |-> e, ids |-> ids]

\* if (!seenNodes.has(currentNode)) { seenNodes.add(currentNode); processedNodes.push(currentNode) }
PushUnseenAll(processed, e) == Append(processed, e)
PushUnseen(processed, e) ==
    IF \E j \in 1..Len(processed) : processed[j] = e THEN processed
    ELSE Append(processed, e)

\* The first loop: st = [nodes, ids, processed].
\* Lines 69, 90, 100 and 105-108: what one round leaves behind.
AfterRound(h, i, st) ==
    [nodes |-> [st.nodes EXCEPT ![i] = h.node],
     ids |-> h.ids,
     processed |-> PushUnseen(st.processed, h.node)]

RECURSIVE CollectNodes(_, _, _)
CollectNodes(i, st, preserveOrder) ==
    IF i > Len(st.nodes) THEN st
    ELSE CollectNodes(i + 1,
             AfterRound(HandleNode(st.nodes[i], i, st.ids, preserveOrder), i, st),
             preserveOrder)

\* prefix + n.src + suffix + '\n' for one node of processedNodes
LineOfBare(e) == SrcOf(e) \o "\n"
LineOf(e) ==
    LET prefix == IF TypeOf(e) = "VariableDeclarator"
                  THEN AST[AST[e.ref].parent].kind \o " " ELSE ""
        suffix == IF TypeOf(e) \in TYPES_REQUIRING_SEMICOLON THEN ";" ELSE ""
    IN prefix \o SrcOf(e) \o suffix \o "\n"

RECURSIVE OutputOf(_)
OutputOf(s) == IF s = <<>> THEN "" ELSE LineOf(s[1]) \o OutputOf(Tail(s))

\* The order in which the sorted nodes are written out.
EmitOrder(processed, ids) == SortNodes(processed, ids)

\* createOrderedSrc(nodes, preserveOrder) run with the nodeIds ids: the text,
\* the emitted nodes, and what the call leaves in the array and the nodeIds.
WriteOut(sorted, st) ==
    [output |-> OutputOf(sorted), processed |-> sorted,
     nodes |-> st.nodes, ids |-> st.ids]

SortAndWrite(st) == WriteOut(EmitOrder(st.processed, st.ids), st)

createOrderedSrc(nodes, preserveOrder, ids) ==
    SortAndWrite(CollectNodes(1, [nodes |-> nodes, ids |-> ids, processed |-> <<>>],
                              preserveOrder))

\* The nodes callers hand over: declarators, calls, IIFEs given as their call
\* or as their statement, anonymous function expressions, an assignment.
OrdCandidates == {2, 5, 7, 8, 13, 14, 18, 21, 25, 27, 31, 40, 43}

OrdArrays ==
    UNION {[1..len -> {TreeNode(n) : n \in OrdCandidates}] : len \in 1..MaxInput}

NodeId0 == [n \in Nodes |-> Num(AST[n].nodeId)]

OrdInit ==
    /\ nodeId = NodeId0
    /\ arr = <<>>
    /\ inp = <<>>
    /\ po = FALSE
    /\ outNodes = <<>>
    /\ out = ""

OrdRun(nodes, preserveOrder) ==
    \E r \in {createOrderedSrc(nodes, preserveOrder, nodeId)} :
       /\ \A n \in Nodes : r.ids[n].hi <= MaxShift
       /\ nodeId' = r.ids
       /\ arr' = r.nodes
       /\ inp' = nodes
       /\ po' = preserveOrder
       /\ outNodes' = r.processed
       /\ out' = r.output

\* A caller builds an array of tree nodes and calls createOrderedSrc on it.
OrdCall ==
    /\ arr = <<>>
    /\ \E nodes \in OrdArrays, p \in BOOLEAN : OrdRun(nodes, p)
    /\ UNCHANGED notOrd

\* A caller calls createOrderedSrc again on the array an earlier call was given.
OrdCallAgain ==
    /\ arr # <<>>
    /\ \E p \in BOOLEAN : OrdRun(arr, p)
    /\ UNCHANGED notOrd

\* The caller drops the array and the text; the nodeIds stay as they are.
OrdRelease ==
    /\ arr # <<>>
    /\ arr' = <<>> /\ inp' = <<>> /\ po' = FALSE /\ outNodes' = <<>> /\ out' = ""
    /\ UNCHANGED nodeId
    /\ UNCHANGED notOrd

OrdNext == OrdCall \/ OrdCallAgain \/ OrdRelease


(***************************************************************************)
(* Context collector: getDeclarationWithContext.js (src/unnamed/part_001)  *)
(***************************************************************************)
IRRELEVANT_FILTER_TYPES == {"Literal", "Identifier", "MemberExpression"}
TYPES_TO_COLLECT ==
    {"CallExpression", "ArrowFunctionExpression", "AssignmentExpression",
     "FunctionDeclaration", "FunctionExpression", "VariableDeclarator"}
SKIP_TRAVERSAL_TYPES == {"Literal", "ThisExpression"}
IF_STATEMENT_KEYS == {"consequent", "alternate"}
STANDALONE_WRAPPER_TYPES == {"ExpressionStatement", "AssignmentExpression", "VariableDeclarator"}

\* config.js: names of the properties whose call changes the object they are
\* called on.
PROPERTIES_THAT_MODIFY_CONTENT ==
    {"push", "forEach", "pop", "insert", "add", "set", "delete", "shift",
     "unshift", "splice", "sort", "reverse", "fill", "copyWithin"}

\* generateHash(text): the MD5 digest, written as a term over the text (no two
\* texts of the model share a digest).
generateHash(text) == "md5(" \o text \o ")"

InSeq(s, x) == \E i \in 1..Len(s) : s[i] = x
Reverse(s) == [i \in 1..Len(s) |-> s[Len(s) + 1 - i]]
ParentOf(n) == IF n = -1 THEN -1 ELSE AST[n].parent
RangeOf(n) == <<AST[n].start, AST[n].end>>

\* isNodeInRanges(targetNode, ranges): the node lies within one of the ranges.
isNodeInRanges(n, ranges) ==
    \E i \in 1..Len(ranges) : AST[n].start >= ranges[i][1] /\ AST[n].end <= ranges[i][2]

isConsequentOrAlternate(t) ==
    IF ParentOf(t) = -1 THEN FALSE
    ELSE \/ AST[ParentOf(t)].type = "IfStatement"
         \/ AST[t].parentKey \in IF_STATEMENT_KEYS
         \/ AST[ParentOf(t)].parentKey \in IF_STATEMENT_KEYS
         \/ /\ ParentOf(ParentOf(t)) # -1
            /\ AST[ParentOf(ParentOf(t))].type = "BlockStatement"
            /\ AST[ParentOf(ParentOf(t))].parentKey \in IF_STATEMENT_KEYS

\* property?.value || property?.name
PropertyName(p) ==
    IF p = -1 THEN "" ELSE IF AST[p].value # "" THEN AST[p].value ELSE AST[p].name

isNodeAnAssignmentToProperty(n, marked) ==
    IF ParentOf(n) = -1 \/ AST[ParentOf(n)].type # "MemberExpression" THEN FALSE
    ELSE IF isConsequentOrAlternate(ParentOf(n)) THEN FALSE
    ELSE IF /\ ParentOf(ParentOf(n)) # -1
            /\ AST[ParentOf(ParentOf(n))].type = "AssignmentExpression"
            /\ AST[ParentOf(n)].parentKey = "left"
    THEN TRUE
    ELSE IF AST[n].parentKey = "object"
    THEN \/ KidAt(ParentOf(n), "property") \in marked
         \/ PropertyName(KidAt(ParentOf(n), "property")) \in PROPERTIES_THAT_MODIFY_CONTENT
    ELSE FALSE

\* doesDescendantMatchCondition(targetNode, n => n.isMarked): the depth-first
\* search, the node popped last-in first-out, its children pushed in reverse.
RECURSIVE DescendantSearch(_, _)
DescendantSearch(stack, marked) ==
    IF stack = <<>> THEN FALSE
    ELSE IF stack[Len(stack)] \in marked THEN TRUE
    ELSE DescendantSearch(SubSeq(stack, 1, Len(stack) - 1)
                              \o Reverse(AST[stack[Len(stack)]].kids),
                          marked)

doesDescendantMatchCondition(n, marked) == n # -1 /\ DescendantSearch(<<n>>, marked)

\* removeRedundantNodes(nodes): the nodes no other node of the array contains.
RECURSIVE KeepFrom(_, _)
KeepFrom(nodes, i) ==
    IF i > Len(nodes) THEN <<>>
    ELSE (IF \E j \in 1..Len(nodes) :
                /\ nodes[j] # nodes[i]
                /\ AST[nodes[j]].start <= AST[nodes[i]].start
                /\ AST[nodes[j]].end >= AST[nodes[i]].end
          THEN <<>> ELSE <<nodes[i]>>)
         \o KeepFrom(nodes, i + 1)

\* Every node is kept.
KeepEveryNode(nodes) == nodes

removeRedundantNodes(nodes) == KeepFrom(nodes, 1)

\* addToStack(node)
addToStack(node, stack, visited) ==
    IF \/ node = -1
       \/ node \in visited
       \/ InSeq(stack, node)
       \/ AST[node].type \in SKIP_TRAVERSAL_TYPES
    THEN stack
    ELSE Append(stack, node)

RECURSIVE AddAllToStack(_, _, _)
AddAllToStack(nodes, stack, visited) ==
    IF nodes = <<>> THEN stack
    ELSE AddAllToStack(Tail(nodes), addToStack(nodes[1], stack, visited), visited)

\* Lines 193-203: what one reference of an identifier adds to targetNodes.
RefTarget(node, ref, marked) ==
    IF \/ AST[ref].parentKey = "arguments" /\ AST[ParentOf(ref)].type = "CallExpression"
       \/ /\ AST[ref].parentKey = "left"
          /\ AST[ParentOf(ref)].type = "AssignmentExpression"
          /\ AST[ParentOf(node)].type # "FunctionDeclaration"
          /\ ~isConsequentOrAlternate(ref)
    THEN <<ParentOf(ref)>>
    ELSE IF isNodeAnAssignmentToProperty(ref, marked)
    THEN <<ParentOf(ParentOf(ref))>>
    ELSE <<>>

RECURSIVE RefTargets(_, _, _)
RefTargets(node, refs, marked) ==
    IF refs = <<>> THEN <<>>
    ELSE RefTarget(node, refs[1], marked) \o RefTargets(node, Tail(refs), marked)

\* Lines 186-189: the declaration of an identifier, or the parent of a
\* declaration that has references.
DeclTarget(node) ==
    IF AST[node].declNode # -1 /\ ParentOf(AST[node].declNode) # -1
    THEN <<ParentOf(AST[node].declNode)>>
    ELSE IF AST[node].refs # <<>> /\ ParentOf(node) # -1
    THEN <<ParentOf(node)>>
    ELSE <<>>

\* Lines 213-216: the nearest ancestor-or-self that can wrap a function.
RECURSIVE ClimbToWrapper(_)
ClimbToWrapper(t) ==
    IF ParentOf(t) # -1 /\ AST[t].type \notin STANDALONE_WRAPPER_TYPES
    THEN ClimbToWrapper(ParentOf(t))
    ELSE t

\* Lines 181-222: targetNodes of a visited node.
TargetNodes(node, marked) ==
    <<node>> \o
    CASE AST[node].type = "Identifier" ->
             DeclTarget(node) \o RefTargets(node, AST[node].refs, marked)
      [] AST[node].type = "MemberExpression" ->
             IF KidAt(node, "property") # -1 /\ AST[KidAt(node, "property")].declNode # -1
             THEN <<AST[KidAt(node, "property")].declNode>> ELSE <<>>
      [] AST[node].type = "FunctionExpression" ->
             IF KidAt(node, "id") = -1
                /\ AST[ClimbToWrapper(node)].type \in STANDALONE_WRAPPER_TYPES
             THEN <<ClimbToWrapper(node)>> ELSE <<>>
      [] OTHER -> <<>>

\* Lines 225-238 for one target node.
PushTarget(t, stack, visited) ==
    AddAllToStack(AST[t].kids,
        AddAllToStack(IF AST[t].scopeBlock = t THEN AST[t].through ELSE <<>>,
                      IF t \notin visited THEN Append(stack, t) ELSE stack,
                      visited),
        visited)

RECURSIVE PushTargets(_, _, _)
PushTargets(targets, stack, visited) ==
    IF targets = <<>> THEN stack
    ELSE PushTargets(Tail(targets), PushTarget(targets[1], stack, visited), visited)

\* Lines 168-239: one node taken off the stack and reviewed.
Visit(node, st, marked) ==
    [stack |-> PushTargets(TargetNodes(node, marked), st.stack, st.visited \cup {node}),
     visited |-> st.visited \cup {node},
     collected |-> IF /\ AST[node].type \in TYPES_TO_COLLECT
                      /\ ~isNodeInRanges(node, st.ranges)
                   THEN Append(st.collected, node) ELSE st.collected,
     ranges |-> IF /\ AST[node].type \in TYPES_TO_COLLECT
                   /\ ~isNodeInRanges(node, st.ranges)
                THEN Append(st.ranges, RangeOf(node)) ELSE st.ranges]

\* The abort test of line 170.
AbortsOnBoth(node, marked) == node \in marked \/ doesDescendantMatchCondition(node, marked)

\* Lines 165-240: the loop over the stack; the nodes collected.
RECURSIVE Traverse(_, _)
Traverse(st, marked) ==
    IF st.stack = <<>> THEN st.collected
    ELSE IF Head(st.stack) \in st.visited
    THEN Traverse([st EXCEPT !.stack = Tail(@)], marked)
    ELSE IF AbortsOnBoth(Head(st.stack), marked) THEN <<>>
    ELSE Traverse(Visit(Head(st.stack), [st EXCEPT !.stack = Tail(@)], marked), marked)

\* The loop of lines 165-240 with a record of its iterations kept: the nodes
\* shifted off the stack, in order; those of them that got past the test of line
\* 167; the number of nodes put on the stack; the nodes collected.  Every
\* iteration is reviewed, the nodes seen before too.  (The test on log.pushes
\* is never true; it makes the record known before the next iteration.)
StartLog == [taken |-> <<>>, processed |-> <<>>, pushes |-> 0, collected |-> <<>>]

Reviewed(node, st, after, log) ==
    [taken |-> Append(log.taken, node),
     processed |-> Append(log.processed, node),
     pushes |-> log.pushes + Len(after.stack) - Len(st.stack) + 1,
     collected |-> after.collected]

RECURSIVE TraverseEveryEntry(_, _, _)
TraverseEveryEntry(st, marked, log) ==
    IF st.stack = <<>> \/ log.pushes < 0 THEN log
    ELSE IF AbortsOnBoth(Head(st.stack), marked)
    THEN [taken |-> Append(log.taken, Head(st.stack)),
          processed |-> Append(log.processed, Head(st.stack)),
          pushes |-> log.pushes, collected |-> <<>>]
    ELSE TraverseEveryEntry(Visit(Head(st.stack), [st EXCEPT !.stack = Tail(@)], marked), marked,
             Reviewed(Head(st.stack), st,
                      Visit(Head(st.stack), [st EXCEPT !.stack = Tail(@)], marked), log))

\* Lines 165-240 as they are: line 167 passes over a node seen before.
RECURSIVE TraverseLog(_, _, _)
TraverseLog(st, marked, log) ==
    IF st.stack = <<>> \/ log.pushes < 0 THEN log
    ELSE IF Head(st.stack) \in st.visited
    THEN TraverseLog([st EXCEPT !.stack = Tail(@)], marked,
                     [log EXCEPT !.taken = Append(@, Head(st.stack))])
    ELSE IF AbortsOnBoth(Head(st.stack), marked)
    THEN [taken |-> Append(log.taken, Head(st.stack)),
          processed |-> Append(log.processed, Head(st.stack)),
          pushes |-> log.pushes, collected |-> <<>>]
    ELSE TraverseLog(Visit(Head(st.stack), [st EXCEPT !.stack = Tail(@)], marked), marked,
             Reviewed(Head(st.stack), st,
                      Visit(Head(st.stack), [st EXCEPT !.stack = Tail(@)], marked), log))

\* The stack and the sets at the start of a traversal from originNode.
StartAt(originNode) ==
    [stack |-> <<originNode>>, visited |-> {}, collected |-> <<>>, ranges |-> <<>>]

\* Lines 256-270: a function declaration with references is kept when one of
\* them is not an assignment to its name.
HasNonAssignmentReference(refs) ==
    \E j \in 1..Len(refs) :
        ~(AST[refs[j]].parentKey = "left"
          /\ ParentOf(refs[j]) # -1
          /\ AST[ParentOf(refs[j])].type = "AssignmentExpression")

\* The test of lines 247-251 alone: reassigned functions are kept too.
KeptUnlessSkipped(n, filtered, originNode, excludeOriginNode) ==
    ~(\/ InSeq(filtered, n)
      \/ AST[n].type \in IRRELEVANT_FILTER_TYPES
      \/ excludeOriginNode /\ isNodeInRanges(n, <<RangeOf(originNode)>>))

KeptByFilter(n, filtered, originNode, excludeOriginNode) ==
    IF \/ InSeq(filtered, n)
       \/ AST[n].type \in IRRELEVANT_FILTER_TYPES
       \/ excludeOriginNode /\ isNodeInRanges(n, <<RangeOf(originNode)>>)
    THEN FALSE
    ELSE IF /\ AST[n].type = "FunctionDeclaration"
            /\ KidAt(n, "id") # -1
            /\ AST[KidAt(n, "id")].refs # <<>>
    THEN HasNonAssignmentReference(AST[KidAt(n, "id")].refs)
    ELSE TRUE

\* Lines 243-274: filteredNodes, in insertion order.
RECURSIVE FilterCollected(_, _, _, _)
FilterCollected(collected, filtered, originNode, excludeOriginNode) ==
    IF collected = <<>> THEN filtered
    ELSE FilterCollected(Tail(collected),
             IF KeptByFilter(collected[1], filtered, originNode, excludeOriginNode)
             THEN Append(filtered, collected[1]) ELSE filtered,
             originNode, excludeOriginNode)

\* The context computed on a cache miss (lines 165-276).
ComputeContext(originNode, excludeOriginNode, marked) ==
    removeRedundantNodes(
        FilterCollected(
            Traverse([stack |-> <<originNode>>, visited |-> {},
                      collected |-> <<>>, ranges |-> <<>>], marked),
            <<>>, originNode, excludeOriginNode))

\* The two cache keys of a node: with its nodeId, and by its text alone.
ContextKeyId(o, ids) ==
    "context-" \o NumText(ids[o]) \o "-" \o generateHash(AST[o].src)
ContextKeySrc(o) == "context-" \o generateHash(AST[o].src)

\* cache[cacheNameId] || cache[cacheNameSrc]: the array found (an array is
\* truthy even when empty), 0 when neither key is present.
CachedContext(mapping, o, ids) ==
    IF ContextKeyId(o, ids) \in DOMAIN mapping THEN mapping[ContextKeyId(o, ids)].arr
    ELSE IF ContextKeySrc(o) \in DOMAIN mapping THEN mapping[ContextKeySrc(o)].arr
    ELSE 0

\* Lines 277-278: both keys are given the one array.
StoreContext(mapping, o, ids, array) ==
    (ContextKeyId(o, ids) :> [by |-> NormalizeHash(AST[o].scriptHash), arr |-> array]) @@
    (ContextKeySrc(o) :> [by |-> NormalizeHash(AST[o].scriptHash), arr |-> array]) @@
    mapping

\* The array of nodes the collector builds from the nodes it kept.
Elements(nodes) == [i \in 1..Len(nodes) |-> TreeNode(nodes[i])]

\* getDeclarationWithContext(originNode, excludeOriginNode): the whole call,
\* its getCache call included.
GetDeclarationWithContext(o, ex) ==
    \E obj \in {GetCacheObj(AST[o].scriptHash, RELEVANT_SCRIPT_HASH, CACHE,
                            Cardinality(DOMAIN heap))} :
    \E mapping \in {IF obj \in DOMAIN heap THEN heap[obj] ELSE EmptyMapping} :
    \E found \in {CachedContext(mapping, o, nodeId)} :
        /\ obj \in DOMAIN heap \/ Cardinality(DOMAIN heap) < MaxObjs
        /\ found # 0 \/ Len(arrays) < MaxArrays
        /\ RELEVANT_SCRIPT_HASH' = GetCacheOwner(AST[o].scriptHash, RELEVANT_SCRIPT_HASH)
        /\ CACHE' = obj
        /\ calls' = Called(AST[o].scriptHash, obj, Cardinality(DOMAIN mapping))
        /\ flushedSince' = FALSE
        /\ IF found # 0
           THEN /\ heap' = (obj :> mapping) @@ heap
                /\ arrays' = arrays
                /\ ctxCall' = [origin |-> o, exclude |-> ex, ret |-> found, hit |-> TRUE,
                               marked |-> AbortsOnBoth(o, isMarked)]
           ELSE /\ heap' = (obj :> StoreContext(mapping, o, nodeId, Len(arrays) + 1)) @@ heap
                /\ arrays' = Append(arrays, Elements(ComputeContext(o, ex, isMarked)))
                /\ ctxCall' = [origin |-> o, exclude |-> ex, ret |-> Len(arrays) + 1,
                               hit |-> FALSE, marked |-> AbortsOnBoth(o, isMarked)]

\* The nodes rules ask a context for, and the nodes they mark.
CtxOrigins == {101, 107, 110, 214, 807}
MarkCandidates == {101, 105, 107}

CtxInit ==
    /\ isMarked = {}
    /\ arrays = <<>>
    /\ ctxCall = [origin |-> -1, exclude |-> FALSE, ret |-> 0, hit |-> FALSE, marked |-> FALSE]

\* A rule asks for the context of a node.
CtxCollect ==
    /\ \E o \in CtxOrigins, ex \in BOOLEAN : GetDeclarationWithContext(o, ex)
    /\ UNCHANGED <<ordVars, evalVars, restVars, isMarked>>

\* A rule marks a node for replacement or deletion (arborist.markNode).
CtxMark ==
    /\ \E n \in MarkCandidates \ isMarked : isMarked' = isMarked \cup {n}
    /\ UNCHANGED <<cacheVars, ordVars, evalVars, restVars, arrays, ctxCall>>

CtxNext == CtxCollect \/ CtxMark

(***************************************************************************)
(* Safe evaluation: evalInVm.js and the Sandbox class (src/unnamed/part_004)*)
(***************************************************************************)
\* config.js: the sentinel evalInVm returns for what it could not resolve.
BAD_VALUE == [type |-> "--BAD-VAL--"]

\* const MAX_CACHE_SIZE = 100
MAX_CACHE_SIZE == 100

\* The numeric literals a rule evaluates in one batch: 1001, 1002, ...
FillerText(k) == ToString(1000 + k)
Fillers == [k \in 1..MaxFillers |-> FillerText(k)]
\* The number each of these texts denotes.
FillerNumber ==
    [t \in {Fillers[k] : k \in 1..MaxFillers} |->
        1000 + CHOOSE k \in 1..MaxFillers : Fillers[k] = t]

\* The fragments rules evaluate one at a time.
CoreFragments ==
    {"2 + 2", "x * 2", "var x = 10; x", "Math.random()", "Date.now()",
     "invalid syntax {{{", "for(;;){}", "while(true) {}; 'safe'",
     "var a=[];for(;;)a.push(a)", "Promise.resolve(42)", "({a: 1, b: 2})",
     "void 0", "null", "({valueOf: 1})"}

\* The characters of the fragments above.
SourceChars ==
    "2 + 2" :>
        <<"2", " ", "+", " ", "2">> @@
    "x * 2" :>
        <<"x", " ", "*", " ", "2">> @@
    "var x = 10; x" :>
        <<"v", "a", "r", " ", "x", " ", "=", " ", "1", "0", ";", " ", "x">> @@
    "Math.random()" :>
        <<"M", "a", "t", "h", ".", "r", "a", "n", "d", "o", "m", "(", ")">> @@
    "Date.now()" :>
        <<"D", "a", "t", "e", ".", "n", "o", "w", "(", ")">> @@
    "invalid syntax {{{" :>
        <<"i", "n", "v", "a", "l", "i", "d", " ", "s", "y", "n", "t", "a", "x", " ", "{", "{", "{">> @@
    "for(;;){}" :>
        <<"f", "o", "r", "(", ";", ";", ")", "{", "}">> @@
    "while(true) {}; 'safe'" :>
        <<"w", "h", "i", "l", "e", "(", "t", "r", "u", "e", ")", " ", "{", "}", ";", " ", "'", "s", "a", "f", "e", "'">> @@
    "var a=[];for(;;)a.push(a)" :>
        <<"v", "a", "r", " ", "a", "=", "[", "]", ";", "f", "o", "r", "(", ";", ";", ")", "a", ".", "p", "u", "s", "h", "(", "a", ")">> @@
    "Promise.resolve(42)" :>
        <<"P", "r", "o", "m", "i", "s", "e", ".", "r", "e", "s", "o", "l", "v", "e", "(", "4", "2", ")">> @@
    "({a: 1, b: 2})" :>
        <<"(", "{", "a", ":", " ", "1", ",", " ", "b", ":", " ", "2", "}", ")">> @@
    "void 0" :>
        <<"v", "o", "i", "d", " ", "0">> @@
    "null" :>
        <<"n", "u", "l", "l">> @@
    "({valueOf: 1})" :>
        <<"(", "{", "v", "a", "l", "u", "e", "O", "f", ":", " ", "1", "}", ")">>

\* JavaScript values.  Every value is a record of the same shape, of which a
\* type uses its own fields: a string is the sequence of its characters; a
\* number is finite (sign and magnitude, so that -0 differs from 0), an
\* infinity or NaN; an array is its elements; an object its keys and, in the
\* same order, their values.
BaseValue ==
    [t |-> "Undefined", chars |-> <<>>, kind |-> "", sign |-> 1, mag |-> 0,
     flag |-> FALSE, items |-> <<>>, keys |-> <<>>]
FiniteValue(sign, mag) ==
    [BaseValue EXCEPT !.t = "Number", !.kind = "finite", !.sign = sign, !.mag = mag]
NumberValue(n) == FiniteValue(IF n < 0 THEN -1 ELSE 1, IF n < 0 THEN -n ELSE n)
NegativeZero == FiniteValue(-1, 0)
InfinityValue(sign) == [BaseValue EXCEPT !.t = "Number", !.kind = "infinity", !.sign = sign]
NaNValue == [BaseValue EXCEPT !.t = "Number", !.kind = "nan"]
StringValue(chars) == [BaseValue EXCEPT !.t = "String", !.chars = chars]
BooleanValue(b) == [BaseValue EXCEPT !.t = "Boolean", !.flag = b]
UndefinedValue == BaseValue
NullValue == [BaseValue EXCEPT !.t = "Null"]
\* A function value, by the kind of source text its toString() prints: a
\* function declaration (function f() {}), an arrow function (() => 1), a
\* class (class A {}), an anonymous function expression (function () {}) or a
\* native function (function max() { [native code] }).
FunctionKinds == {"declaration", "arrow", "class", "anonymous", "native"}
FunctionValue(kind) == [BaseValue EXCEPT !.t = "Function", !.kind = kind]
PromiseValue == [BaseValue EXCEPT !.t = "Promise"]
\* A bigint; a symbol with its description (none and '' alike are <<>>); a
\* regular expression with its source and flags.
BigIntValue(n) ==
    [BaseValue EXCEPT !.t = "BigInt", !.sign = IF n < 0 THEN -1 ELSE 1,
                      !.mag = IF n < 0 THEN -n ELSE n]
SymbolValue(description) == [BaseValue EXCEPT !.t = "Symbol", !.chars = description]
RegExpValue(source, flags) == [BaseValue EXCEPT !.t = "RegExp", !.chars = source, !.kind = flags]
ArrayValue(elements) == [BaseValue EXCEPT !.t = "Array", !.items = elements]
ObjectValue(keys, values) == [BaseValue EXCEPT !.t = "Object", !.keys = keys, !.items = values]
NoValue == [BaseValue EXCEPT !.t = "None"]
\* A Reference of isolated-vm to a value inside the isolate.
Reference(value) == [BaseValue EXCEPT !.t = "Object", !.kind = "Reference", !.items = <<value>>]

\* The context of a new Sandbox(): no script global yet, Math.random and Date
\* present, the isolate alive.
NewContext == [x |-> NoValue, hasRandom |-> TRUE, hasDate |-> TRUE, disposed |-> FALSE]

DigitChars == <<"0", "1", "2", "3", "4", "5", "6", "7", "8", "9">>
IsDigit(c) == \E d \in 1..Len(DigitChars) : c = DigitChars[d]

\* The characters as one text.
RECURSIVE TextOf(_)
TextOf(chars) == IF chars = <<>> THEN "" ELSE chars[1] \o TextOf(Tail(chars))

\* The regular expressions of TRAP_STRINGS, on a text given as the sequence of
\* its characters.  Each ...End operator gives the position after the match
\* that begins at position i, or 0 when there is none there (also for i = 0).
\* \s: the white space and line terminator characters of ECMAScript.  A
\* character a string of this module cannot hold stands as the name of its
\* code point.
WhiteSpace ==
    {" ", "\t", "\n", "\r", "\f", "<U+000B>", "<U+00A0>", "<U+1680>",
     "<U+2000>", "<U+2001>", "<U+2002>", "<U+2003>", "<U+2004>", "<U+2005>",
     "<U+2006>", "<U+2007>", "<U+2008>", "<U+2009>", "<U+200A>",
     "<U+2028>", "<U+2029>", "<U+202F>", "<U+205F>", "<U+3000>", "<U+FEFF>"}
UpperCase ==
    <<"A", "B", "C", "D", "E", "F", "G", "H", "I", "J", "K", "L", "M",
      "N", "O", "P", "Q", "R", "S", "T", "U", "V", "W", "X", "Y", "Z">>
LowerCase ==
    <<"a", "b", "c", "d", "e", "f", "g", "h", "i", "j", "k", "l", "m",
      "n", "o", "p", "q", "r", "s", "t", "u", "v", "w", "x", "y", "z">>
\* The i flag
ToLower(c) ==
    IF \E k \in 1..Len(UpperCase) : UpperCase[k] = c
    THEN LowerCase[CHOOSE k \in 1..Len(UpperCase) : UpperCase[k] = c]
    ELSE c

\* \s*
RECURSIVE SkipSpace(_, _)
SkipSpace(chars, i) ==
    IF i <= Len(chars) /\ chars[i] \in WhiteSpace THEN SkipSpace(chars, i + 1) ELSE i
SpaceEnd(chars, i) == IF i = 0 THEN 0 ELSE SkipSpace(chars, i)
\* a word, in either case
WordEnd(chars, i, word) ==
    IF /\ i > 0
       /\ i + Len(word) - 1 <= Len(chars)
       /\ \A k \in 1..Len(word) : ToLower(chars[i + k - 1]) = word[k]
    THEN i + Len(word) ELSE 0
\* one character of a class
CharEnd(chars, i, class) ==
    IF i > 0 /\ i <= Len(chars) /\ chars[i] \in class THEN i + 1 ELSE 0
\* [0-9]*
RECURSIVE SkipDigits(_, _)
SkipDigits(chars, i) ==
    IF i <= Len(chars) /\ IsDigit(chars[i]) THEN SkipDigits(chars, i + 1) ELSE i
\* [1-9][0-9]*
NumberEnd(chars, i) ==
    IF i > 0 /\ i <= Len(chars) /\ IsDigit(chars[i]) /\ chars[i] # "0"
    THEN SkipDigits(chars, i + 1) ELSE 0
\* (true|[1-9][0-9]*)
ConditionEnd(chars, i) ==
    IF WordEnd(chars, i, <<"t", "r", "u", "e">>) > 0
    THEN WordEnd(chars, i, <<"t", "r", "u", "e">>)
    ELSE NumberEnd(chars, i)
\* while\s*\(\s*
LoopHeadEnd(chars, i) ==
    SpaceEnd(chars, CharEnd(chars, SpaceEnd(chars,
        WordEnd(chars, i, <<"w", "h", "i", "l", "e">>)), {"("}))
\* /while\s*\(\s*(true|[1-9][0-9]*)\s*\)\s*\{\s*}/gi
LoopEnd(chars, i) ==
    CharEnd(chars, SpaceEnd(chars, CharEnd(chars, SpaceEnd(chars,
        CharEnd(chars, SpaceEnd(chars, ConditionEnd(chars, LoopHeadEnd(chars, i))),
                {")"})), {"{"})), {"}"})
\* /debugger/gi
DebuggerEnd(chars, i) == WordEnd(chars, i, <<"d", "e", "b", "u", "g", "g", "e", "r">>)
Quotes == {"\"", "'"}
\* ["']debu["']\s*\+\s*
SplitHeadEnd(chars, i) ==
    SpaceEnd(chars, CharEnd(chars, SpaceEnd(chars,
        CharEnd(chars, WordEnd(chars, CharEnd(chars, i, Quotes), <<"d", "e", "b", "u">>),
                Quotes)), {"+"}))
\* /["']debu["']\s*\+\s*["']gger["']/gi
SplitEnd(chars, i) ==
    CharEnd(chars, WordEnd(chars, CharEnd(chars, SplitHeadEnd(chars, i), Quotes),
                           <<"g", "g", "e", "r">>), Quotes)

\* TRAP_STRINGS[k].trap at position i, and TRAP_STRINGS[k].replaceWith
TrapEnd(k, chars, i) ==
    CASE k = 1 -> LoopEnd(chars, i)
      [] k = 2 -> DebuggerEnd(chars, i)
      [] k = 3 -> SplitEnd(chars, i)
ReplaceWith ==
    <<<<"w", "h", "i", "l", "e", " ", "(", "0", ")", " ", "{", "}">>,
      <<"\"", "d", "e", "b", "u", "g", "g", "e", "_", "\"">>,
      <<"\"", "d", "e", "b", "u", "\"", " ", "+", " ", "\"", "g", "g", "e", "_", "\"">>>>

\* String.prototype.replace with a g pattern: every match, from the left,
\* each search going on after the match before it.
RECURSIVE ReplaceFrom(_, _, _)
ReplaceFrom(k, chars, i) ==
    IF i > Len(chars) THEN <<>>
    ELSE IF TrapEnd(k, chars, i) > 0
    THEN ReplaceWith[k] \o ReplaceFrom(k, chars, TrapEnd(k, chars, i))
    ELSE <<chars[i]>> \o ReplaceFrom(k, chars, i + 1)

\* Lines 68-71: the traps replaced one pattern after the other.
ReplaceLoopsOnly(chars) == ReplaceFrom(1, chars, 1)
ReplaceTraps(chars) == ReplaceFrom(3, ReplaceFrom(2, ReplaceFrom(1, chars, 1), 1), 1)

\* The same on the fragments of the model; the texts of a batch are decimal
\* numbers, which no trap matches.
NeutralizeTraps(text) ==
    IF text \in DOMAIN SourceChars THEN TextOf(ReplaceTraps(SourceChars[text])) ELSE text

\* How a run ends: a value, or one of the four failures.
Completed(value, ctx) == [outcome |-> "value", value |-> value, ctx |-> ctx]
Failed(how, ctx) == [outcome |-> how, value |-> NoValue, ctx |-> ctx]

\* The fragments the augmented array rule builds from the scripts hA, hB and
\* hG, and the array each leaves in the variable it ends with: every call of
\* the function moves the first element of the array to its end.
AugmentedArrays ==
    "var arr = [1,2,3];\n(function(a,n){a.push(a.shift())})(arr,1);\n;\n(function(a,n){a.push(a.shift())})(arr,1);\n\narr;" :>
        <<3, 1, 2>> @@
    "var arr = [1,2,3];\n(function(a,n){a.push(a.shift())})(arr,1);\n(function(a,n){a.push(a.shift())})(arr,1);\n;\n(function(a,n){a.push(a.shift())})(arr,1);\n\narr;" :>
        <<1, 2, 3>> @@
    "var arr;\narr = [1,2,3];\n;\n(function(a,n){a.push(a.shift())})(arr,1);\n\narr;" :>
        <<2, 3, 1>> @@
    "var brr = [4,5];\n;\n(function(a,n){a.push(a.shift())})(brr,1);\n\nbrr;" :>
        <<5, 4>> @@
    "var brr = [4,5];\n(function(a,n){a.push(a.shift())})(brr,1);\n;\n(function(a,n){a.push(a.shift())})(brr,1);\n\nbrr;" :>
        <<4, 5>>

\* The fragments of the rule that throw: Math.random is deleted before the
\* fragment runs, and a.push fails while arr is undefined.
AugmentedThrows ==
    {"var arr = [1,2];\n;\n(function(a,n){a.push(Math.random())})(arr,1);\n\narr;",
     "var arr = [1,2];\n(function(a,n){a.push(Math.random())})(arr,1);\n;\n(function(a,n){a.push(Math.random())})(arr,1);\n\narr;",
     "var arr;\n(function(a,n){a.push(a.shift())})(arr,1);\narr = [1,2,3];\n;\n(function(a,n){a.push(a.shift())})(arr,1);\n\narr;"}

NumberValues(numbers) == [i \in DOMAIN numbers |-> NumberValue(numbers[i])]

\* What the isolate does with a compiled text in context ctx; now is what a
\* clock or random source would give at that moment.
Execute(code, ctx, now) ==
    CASE code = "2 + 2" -> Completed(NumberValue(4), ctx)
      [] code = "x * 2" ->
            IF ctx.x # NoValue THEN Completed(NumberValue(ctx.x.mag * 2), ctx)
            ELSE Failed("throw", ctx)
      [] code = "var x = 10; x" ->
            Completed(NumberValue(10), [ctx EXCEPT !.x = NumberValue(10)])
      [] code = "Math.random()" ->
            IF ctx.hasRandom THEN Completed(NumberValue(now), ctx) ELSE Failed("throw", ctx)
      [] code = "Date.now()" ->
            IF ctx.hasDate THEN Completed(NumberValue(now), ctx) ELSE Failed("throw", ctx)
      [] code = "for(;;){}" -> Failed("timeout", ctx)
      [] code = "while(true) {}; 'safe'" -> Failed("timeout", ctx)
      [] code = "while (0) {}; 'safe'" -> Completed(StringValue(<<"s", "a", "f", "e">>), ctx)
      [] code = "var a=[];for(;;)a.push(a)" -> Failed("oom", [ctx EXCEPT !.disposed = TRUE])
      [] code = "Promise.resolve(42)" -> Completed(PromiseValue, ctx)
      [] code = "({a: 1, b: 2})" ->
            Completed(ObjectValue(<<<<"a">>, <<"b">>>>, <<NumberValue(1), NumberValue(2)>>), ctx)
      [] code = "void 0" -> Completed(UndefinedValue, ctx)
      [] code = "null" -> Completed(NullValue, ctx)
      [] code = "({valueOf: 1})" ->
            Completed(ObjectValue(<<<<"v", "a", "l", "u", "e", "O", "f">>>>, <<NumberValue(1)>>), ctx)
      [] code \in DOMAIN FillerNumber -> Completed(NumberValue(FillerNumber[code]), ctx)
      [] code \in DOMAIN AugmentedArrays ->
            Completed(ArrayValue(NumberValues(AugmentedArrays[code])), ctx)
      [] code \in AugmentedThrows -> Failed("throw", ctx)
      [] OTHER -> Failed("throw", ctx)

\* 'delete Math.random; delete Date;' run in front of the code
DeleteNondeterministicKeep(ctx) == ctx
DeleteNondeterministic(ctx) == [ctx EXCEPT !.hasRandom = FALSE, !.hasDate = FALSE]

\* Sandbox.run(code): compile 'delete Math.random; delete Date;\n\n' + code,
\* then run it with {reference: true}, which gives a Reference to the value
\* the script completes with.  A disposed isolate throws; a text that does not
\* compile throws before anything runs.
Referenced(run) ==
    IF run.outcome = "value" THEN [run EXCEPT !.value = Reference(run.value)] ELSE run
SandboxRun(code, ctx, now) ==
    IF ctx.disposed THEN Failed("throw", ctx)
    ELSE IF code = "invalid syntax {{{" THEN Failed("syntax", ctx)
    ELSE Referenced(Execute(code, DeleteNondeterministic(ctx), now))

\* getObjType(value): the name in Object.prototype.toString's answer.
getObjType(value) == value.t

InfinityChars == <<"I", "n", "f", "i", "n", "i", "t", "y">>
NaNChars == <<"N", "a", "N">>

\* The decimal digits of a natural number.
RECURSIVE Digits(_)
Digits(n) ==
    IF n < 10 THEN <<DigitChars[n + 1]>>
    ELSE Digits(n \div 10) \o <<DigitChars[(n % 10) + 1]>>

\* String(value) for a string, a number or a boolean.
ToStringChars(value) ==
    CASE value.t = "String" -> value.chars
      [] value.t = "Boolean" ->
            IF value.flag THEN <<"t", "r", "u", "e">> ELSE <<"f", "a", "l", "s", "e">>
      [] value.t = "Number" /\ value.kind = "nan" -> NaNChars
      [] value.t = "Number" /\ value.kind = "infinity" ->
            (IF value.sign < 0 THEN <<"-">> ELSE <<>>) \o InfinityChars
      [] value.t = "Number" /\ value.kind = "finite" ->
            (IF value.sign < 0 /\ value.mag > 0 THEN <<"-">> ELSE <<>>)
            \o Digits(value.mag)

\* isNaN(parseInt(chars)): after leading white space (the characters of \s)
\* and one optional sign there is no digit.
RECURSIVE SkipBlanks(_)
SkipBlanks(chars) ==
    IF chars # <<>> /\ chars[1] \in WhiteSpace THEN SkipBlanks(Tail(chars)) ELSE chars
Unsigned(chars) == IF chars # <<>> /\ chars[1] \in {"-", "+"} THEN Tail(chars) ELSE chars
HexPrefixed(chars) == Len(chars) >= 2 /\ chars[1] = "0" /\ chars[2] \in {"x", "X"}
HexChars == {"a", "b", "c", "d", "e", "f", "A", "B", "C", "D", "E", "F"}
NoLeadingDigit(chars) ==
    IF HexPrefixed(chars)
    THEN Len(chars) = 2 \/ ~(IsDigit(chars[3]) \/ chars[3] \in HexChars)
    ELSE chars = <<>> \/ ~IsDigit(chars[1])
ParseIntIsNaN(chars) == NoLeadingDigit(Unsigned(SkipBlanks(chars)))

LiteralNode(value, chars) == [type |-> "Literal", value |-> value, raw |-> TextOf(chars)]
IdentifierNode(name) == [type |-> "Identifier", name |-> name]
UnaryNode(operator, argument) ==
    [type |-> "UnaryExpression", operator |-> operator, argument |-> argument]

\* Lines 70-83: the array node, unless an element failed to convert (the
\* throw of line 75 ends in the catch of line 170, which leaves BAD_VALUE).
ArrayNodeKeepBad(elements) == [type |-> "ArrayExpression", elements |-> elements]
ArrayNode(elements) ==
    IF \E i \in 1..Len(elements) : elements[i] = BAD_VALUE THEN BAD_VALUE
    ELSE [type |-> "ArrayExpression", elements |-> elements]

\* Lines 84-108: the object node, unless a key or a value failed to convert.
ObjectNode(properties) ==
    IF \E i \in 1..Len(properties) :
           properties[i].key = BAD_VALUE \/ properties[i].value = BAD_VALUE
    THEN BAD_VALUE
    ELSE [type |-> "ObjectExpression", properties |-> properties]

\* Lines 149-160: parseCode(value.toString()).body[0], the first statement of
\* the printed source of the function: the declaration of a named function or
\* of a class, the expression statement an arrow function makes.  The printed
\* source of an anonymous function expression or of a native function does not
\* parse, and the catch of line 156 leaves BAD_VALUE.
ParsedFunction(value) ==
    CASE value.kind = "declaration" -> [type |-> "FunctionDeclaration"]
      [] value.kind = "class" -> [type |-> "ClassDeclaration"]
      [] value.kind = "arrow" ->
            [type |-> "ExpressionStatement",
             expression |-> [type |-> "ArrowFunctionExpression"]]
      [] OTHER -> BAD_VALUE

\* createNewNode(value)
RECURSIVE createNewNode(_)

\* Lines 23-64: a string, a number or a boolean, chars being String(value).
PrimitiveNode(value, chars) ==
    IF chars # <<>> /\ chars[1] \in {"-", "+", "!"} /\ Len(chars) > 1
    THEN IF ParseIntIsNaN(Tail(chars)) /\ Tail(chars) \notin {InfinityChars, NaNChars}
         THEN LiteralNode(value, chars)
         ELSE UnaryNode(chars[1], createNewNode(StringValue(Tail(chars))))
    ELSE IF chars \in {InfinityChars, NaNChars} THEN IdentifierNode(TextOf(chars))
    ELSE IF value = NegativeZero THEN UnaryNode("-", createNewNode(NumberValue(0)))
    ELSE LiteralNode(value, chars)

\* value.toString() of a bigint
BigIntChars(value) == (IF value.sign < 0 THEN <<"-">> ELSE <<>>) \o Digits(value.mag)

createNewNode(value) ==
    CASE getObjType(value) = "Node" -> value
      [] getObjType(value) \in {"String", "Number", "Boolean"} ->
            PrimitiveNode(value, ToStringChars(value))
      [] getObjType(value) = "Array" ->
            ArrayNode([i \in 1..Len(value.items) |-> createNewNode(value.items[i])])
      [] getObjType(value) = "Object" ->
            ObjectNode([i \in 1..Len(value.keys) |->
                [type |-> "Property",
                 key |-> createNewNode(StringValue(value.keys[i])),
                 value |-> createNewNode(value.items[i])]])
      [] getObjType(value) = "Undefined" -> IdentifierNode("undefined")
      [] getObjType(value) = "Null" -> [type |-> "Literal", raw |-> "null"]
      [] getObjType(value) = "BigInt" ->
            [type |-> "Literal", value |-> value,
             raw |-> TextOf(BigIntChars(value)) \o "n", bigint |-> TextOf(BigIntChars(value))]
      [] getObjType(value) = "Symbol" ->
            [type |-> "CallExpression", callee |-> IdentifierNode("Symbol"),
             arguments |-> IF value.chars # <<>>
                           THEN <<createNewNode(StringValue(value.chars))>> ELSE <<>>]
      [] getObjType(value) = "Function" -> ParsedFunction(value)
      [] getObjType(value) = "RegExp" ->
            [type |-> "Literal",
             regex |-> [pattern |-> TextOf(value.chars), flags |-> value.kind]]
      [] OTHER -> BAD_VALUE

\* const BAD_TYPES = ['Promise']
BAD_TYPES == {"Promise"}

\* Sandbox.isReference(obj): obj is not null or undefined and its prototype
\* is Reference.prototype.
isReference(obj) == obj.t \notin {"Undefined", "Null"} /\ obj.kind = "Reference"

\* Reference.copySync(): isolated-vm copies the value out of the isolate, and
\* throws for a value that cannot be cloned: a function, a promise, a symbol,
\* or an array or object that holds one.
RECURSIVE Cloneable(_)
Cloneable(value) ==
    CASE value.t \in {"Function", "Promise", "Symbol"} -> FALSE
      [] value.t \in {"Array", "Object"} ->
            \A i \in 1..Len(value.items) : Cloneable(value.items[i])
      [] OTHER -> TRUE

\* The UTF-16 code unit of a character: 32 to 95, 97 to 126, and the white
\* space outside these ranges.
AsciiUpTo95 ==
    <<" ", "!", "\"", "#", "$", "%", "&", "'", "(", ")", "*", "+", ",", "-", ".", "/",
      "0", "1", "2", "3", "4", "5", "6", "7", "8", "9", ":", ";", "<", "=", ">", "?", "@",
      "A", "B", "C", "D", "E", "F", "G", "H", "I", "J", "K", "L", "M",
      "N", "O", "P", "Q", "R", "S", "T", "U", "V", "W", "X", "Y", "Z",
      "[", "\\", "]", "^", "_">>
AsciiFrom97 ==
    <<"a", "b", "c", "d", "e", "f", "g", "h", "i", "j", "k", "l", "m",
      "n", "o", "p", "q", "r", "s", "t", "u", "v", "w", "x", "y", "z",
      "{", "|", "}", "~">>
OtherCodeUnits ==
    "\t" :> 9 @@ "\n" :> 10 @@ "<U+000B>" :> 11 @@ "\f" :> 12 @@ "\r" :> 13 @@
    "<U+00A0>" :> 160 @@ "<U+1680>" :> 5760 @@
    "<U+2000>" :> 8192 @@ "<U+2001>" :> 8193 @@ "<U+2002>" :> 8194 @@
    "<U+2003>" :> 8195 @@ "<U+2004>" :> 8196 @@ "<U+2005>" :> 8197 @@
    "<U+2006>" :> 8198 @@ "<U+2007>" :> 8199 @@ "<U+2008>" :> 8200 @@
    "<U+2009>" :> 8201 @@ "<U+200A>" :> 8202 @@ "<U+2028>" :> 8232 @@
    "<U+2029>" :> 8233 @@ "<U+202F>" :> 8239 @@ "<U+205F>" :> 8287 @@
    "<U+3000>" :> 12288 @@ "<U+FEFF>" :> 65279
CodeUnit(c) ==
    IF c \in DOMAIN OtherCodeUnits THEN OtherCodeUnits[c]
    ELSE IF \E k \in 1..Len(AsciiUpTo95) : AsciiUpTo95[k] = c
    THEN 31 + CHOOSE k \in 1..Len(AsciiUpTo95) : AsciiUpTo95[k] = c
    ELSE 96 + CHOOSE k \in 1..Len(AsciiFrom97) : AsciiFrom97[k] = c

\* a < b as Array.prototype.sort() compares two strings: by code units.
RECURSIVE Precedes(_, _)
Precedes(a, b) ==
    IF b = <<>> THEN FALSE
    ELSE IF a = <<>> THEN TRUE
    ELSE IF a[1] = b[1] THEN Precedes(Tail(a), Tail(b))
    ELSE CodeUnit(a[1]) < CodeUnit(b[1])

\* strings.sort()
RECURSIVE InsertKey(_, _)
InsertKey(sorted, key) ==
    IF sorted = <<>> THEN <<key>>
    ELSE IF Precedes(key, sorted[1]) THEN <<key>> \o sorted
    ELSE <<sorted[1]>> \o InsertKey(Tail(sorted), key)
RECURSIVE Sorted(_)
Sorted(strings) ==
    IF strings = <<>> THEN <<>>
    ELSE InsertKey(Sorted(SubSeq(strings, 1, Len(strings) - 1)), strings[Len(strings)])

\* strings.join('')
RECURSIVE Joined(_)
Joined(strings) == IF strings = <<>> THEN <<>> ELSE strings[1] \o Joined(Tail(strings))

\* Object.keys(value) of a value that is neither undefined nor null: the
\* indices of a string or an array, the keys of an object, nothing for a
\* number or a boolean.
ObjectKeys(value) ==
    CASE value.t = "String" -> [i \in 1..Len(value.chars) |-> Digits(i - 1)]
      [] value.t = "Array" -> [i \in 1..Len(value.items) |-> Digits(i - 1)]
      [] value.t = "Object" -> value.keys
      [] OTHER -> <<>>

\* Object.keys(console) of Node.js, the runtime evalInVm.js is loaded in: the
\* keys of Node.js 20 and later (createTask is absent from earlier releases).
ConsoleKeys ==
    <<<<"l", "o", "g">>, <<"w", "a", "r", "n">>, <<"d", "i", "r">>,
      <<"t", "i", "m", "e">>, <<"t", "i", "m", "e", "E", "n", "d">>,
      <<"t", "i", "m", "e", "L", "o", "g">>, <<"t", "r", "a", "c", "e">>,
      <<"a", "s", "s", "e", "r", "t">>, <<"c", "l", "e", "a", "r">>,
      <<"c", "o", "u", "n", "t">>,
      <<"c", "o", "u", "n", "t", "R", "e", "s", "e", "t">>,
      <<"g", "r", "o", "u", "p">>, <<"g", "r", "o", "u", "p", "E", "n", "d">>,
      <<"t", "a", "b", "l", "e">>, <<"d", "e", "b", "u", "g">>,
      <<"i", "n", "f", "o">>, <<"d", "i", "r", "x", "m", "l">>,
      <<"e", "r", "r", "o", "r">>,
      <<"g", "r", "o", "u", "p", "C", "o", "l", "l", "a", "p", "s", "e", "d">>,
      <<"C", "o", "n", "s", "o", "l", "e">>, <<"p", "r", "o", "f", "i", "l", "e">>,
      <<"p", "r", "o", "f", "i", "l", "e", "E", "n", "d">>,
      <<"t", "i", "m", "e", "S", "t", "a", "m", "p">>,
      <<"c", "o", "n", "t", "e", "x", "t">>,
      <<"c", "r", "e", "a", "t", "e", "T", "a", "s", "k">>>>

\* Lines 12-13: Object.keys(console).sort().join(''), and the same without the
\* first of the sorted keys.
ConsoleSignatures == {Joined(Sorted(ConsoleKeys)), Joined(Tail(Sorted(ConsoleKeys)))}

\* The properties MATCHING_OBJECT_KEYS inherits from Object.prototype: it is
\* an object literal, and line 82 reads it with a key made from the result.
ObjectPrototypeMethods ==
    {"constructor", "hasOwnProperty", "isPrototypeOf", "propertyIsEnumerable",
     "toLocaleString", "toString", "valueOf", "__defineGetter__",
     "__defineSetter__", "__lookupGetter__", "__lookupSetter__"}

\* MATCHING_OBJECT_KEYS[objKeys]: the identifier console for the two key
\* signatures of lines 12 and 13, what Object.prototype holds under an
\* inherited name (a native function, or Object.prototype itself under
\* __proto__), and undefined for every other text.
MATCHING_OBJECT_KEYS(objKeys) ==
    CASE objKeys \in ConsoleSignatures -> IdentifierNode("console")
      [] TextOf(objKeys) \in ObjectPrototypeMethods -> FunctionValue("native")
      [] TextOf(objKeys) = "__proto__" -> ObjectValue(<<>>, <<>>)
      [] OTHER -> UndefinedValue

\* Lines 81-86: the node for the value copied out of the isolate.
CopiedNode(value) ==
    IF MATCHING_OBJECT_KEYS(Joined(Sorted(ObjectKeys(value)))) # UndefinedValue
    THEN MATCHING_OBJECT_KEYS(Joined(Sorted(ObjectKeys(value))))
    ELSE createNewNode(value)

\* Lines 72-87: the body of the try block, as what is left in the cache entry
\* and whether the block was left by an exception: vm.run throws when the run
\* fails (line 73); a result that is no reference, or one of a type in
\* BAD_TYPES, is passed over (line 76); copySync throws for what cannot be
\* cloned (line 78), and Object.keys for undefined and null (line 81).
TryBody(run) ==
    IF run.outcome # "value" THEN [node |-> BAD_VALUE, exception |-> TRUE]
    ELSE IF ~(isReference(run.value) /\ getObjType(run.value) \notin BAD_TYPES)
    THEN [node |-> BAD_VALUE, exception |-> FALSE]
    ELSE IF ~Cloneable(run.value.items[1]) THEN [node |-> BAD_VALUE, exception |-> TRUE]
    ELSE IF run.value.items[1].t \in {"Undefined", "Null"}
    THEN [node |-> BAD_VALUE, exception |-> TRUE]
    ELSE [node |-> CopiedNode(run.value.items[1]), exception |-> FALSE]

\* Line 88: catch {}: the exception ends there, the entry stays BAD_VALUE.
Catch(body) == [body EXCEPT !.exception = FALSE]

\* const cacheName = `eval-${generateHash(stringToEval)}`
EvalCacheName(text) == "eval-" \o generateHash(text)

\* A memo that is never dropped.
KeepWhenFull(memo) == memo

\* Line 64: the whole memo is dropped when it is full.
EvictIfFull(memo) ==
    IF Cardinality(DOMAIN memo) >= MAX_CACHE_SIZE THEN EmptyMapping ELSE memo

\* evalInVm(stringToEval, sb) on a miss, given how the run ended.
EvalMiss(text, memo, run) ==
    [memo |-> (EvalCacheName(text) :> Catch(TryBody(run)).node) @@ EvictIfFull(memo),
     ret |-> Catch(TryBody(run)).node,
     exception |-> Catch(TryBody(run)).exception,
     outcome |-> run.outcome,
     ctx |-> run.ctx,
     hit |-> FALSE]

\* evalInVm(stringToEval, sb) run in context ctx (that of sb, or of a new
\* Sandbox()): the memo and the context afterwards, and what is returned.
evalInVm(text, memo, ctx, now) ==
    IF EvalCacheName(text) \in DOMAIN memo
    THEN [memo |-> memo, ret |-> memo[EvalCacheName(text)], exception |-> FALSE,
          outcome |-> "none", ctx |-> ctx, hit |-> TRUE]
    ELSE EvalMiss(text, memo, SandboxRun(NeutralizeTraps(text), ctx, now))

\* A rule evaluates a list of fragments one after the other, each in a new
\* Sandbox(): the memo afterwards.  (Line 64 keeps the memo within
\* MAX_CACHE_SIZE entries, so the first test only depends on lo > hi; it makes
\* the memo of the earlier fragments known before the later ones are taken.)
RECURSIVE EvalRange(_, _, _, _)
EvalRange(texts, lo, hi, memo) ==
    IF lo > hi \/ Cardinality(DOMAIN memo) > MAX_CACHE_SIZE THEN memo
    ELSE IF lo = hi THEN evalInVm(texts[lo], memo, NewContext, 0).memo
    ELSE EvalRange(texts, (lo + hi) \div 2 + 1, hi,
                   EvalRange(texts, lo, (lo + hi) \div 2, memo))

EvalAll(texts, memo) == EvalRange(texts, 1, Len(texts), memo)

\* No Sandbox object is kept by the caller.
NoSandbox == [none |-> TRUE]

\* What a call leaves in the record of calls; script is the script that is
\* current when the call is made.
RecordedIn(script, text, withSb, r) ==
    [text |-> text, sb |-> withSb, ret |-> r.ret, exception |-> r.exception,
     outcome |-> r.outcome, hit |-> r.hit, script |-> script]
Recorded(text, withSb, r) == RecordedIn(RELEVANT_SCRIPT_HASH, text, withSb, r)

\* The reading of the clock and of the random source at the next call.
Now == Len(evalLog) + 1

EvalInit ==
    /\ EVAL_CACHE = EmptyMapping
    /\ sb = NoSandbox
    /\ evalLog = <<>>
    /\ batchDone = FALSE

\* evalInVm(f): no sandbox is passed, a new one is made and dropped.
EvalFresh ==
    /\ Len(evalLog) < MaxEvalCalls
    /\ \E f \in CoreFragments :
        \E r \in {evalInVm(f, EVAL_CACHE, NewContext, Now)} :
            /\ EVAL_CACHE' = r.memo
            /\ evalLog' = Append(evalLog, Recorded(f, FALSE, r))
    /\ UNCHANGED <<cacheVars, ordVars, ctxVars, restVars, sb, batchDone>>

\* evalInVm(f, sb) with the sandbox the caller keeps.
EvalInSandbox ==
    /\ Len(evalLog) < MaxEvalCalls
    /\ sb # NoSandbox
    /\ \E f \in CoreFragments :
        \E r \in {evalInVm(f, EVAL_CACHE, sb, Now)} :
            /\ EVAL_CACHE' = r.memo
            /\ sb' = r.ctx
            /\ evalLog' = Append(evalLog, Recorded(f, TRUE, r))
    /\ UNCHANGED <<cacheVars, ordVars, ctxVars, restVars, batchDone>>

\* sb = new Sandbox()
NewSandbox ==
    /\ sb # NewContext
    /\ sb' = NewContext
    /\ UNCHANGED <<cacheVars, ordVars, ctxVars, restVars, EVAL_CACHE, evalLog, batchDone>>

\* sb.run('var x = 10; x'), called by the keeper of the sandbox itself.
SandboxRunDirect ==
    /\ sb # NoSandbox
    /\ sb' = SandboxRun("var x = 10; x", sb, Now).ctx
    /\ sb' # sb
    /\ UNCHANGED <<cacheVars, ordVars, ctxVars, restVars, EVAL_CACHE, evalLog, batchDone>>

\* A rule evaluates the literals of a script in one pass.
EvalBatch ==
    /\ ~batchDone
    /\ batchDone' = TRUE
    /\ EVAL_CACHE' = EvalAll(Fillers, EVAL_CACHE)
    /\ UNCHANGED <<cacheVars, ordVars, ctxVars, restVars, sb, evalLog>>

\* The scripts of a run, processed one after the other.
ScriptOrder == <<"h1", "h2">>

\* The script that becomes current after the one that owns the cache.
NextScripts(owner) ==
    IF owner = NullId THEN {ScriptOrder[1]}
    ELSE {ScriptOrder[i + 1] : i \in {j \in 1..(Len(ScriptOrder) - 1) : ScriptOrder[j] = owner}}

\* The next script becomes current: its first getCache(scriptHash) call.
EvalNextScript ==
    /\ \E id \in NextScripts(RELEVANT_SCRIPT_HASH) : GetCache(id)
    /\ UNCHANGED notCache

EvalNext == EvalFresh \/ EvalInSandbox \/ NewSandbox \/ SandboxRunDirect \/ EvalBatch

\* Evaluations made while the scripts of a run are processed in turn.
EvalScriptsNext == EvalFresh \/ EvalNextScript

(***************************************************************************)
(* Value-to-node conversion: src/src/modules/utils/createNewNode.js        *)
(***************************************************************************)
\* A string value from its text, for the texts below.
CharsOf ==
    "" :> <<>> @@ "a" :> <<"a">> @@ "3" :> <<"3">> @@ "-" :> <<"-">> @@
    "!a" :> <<"!", "a">> @@ "-a" :> <<"-", "a">> @@
    "-3" :> <<"-", "3">> @@ "+5" :> <<"+", "5">> @@ "!3" :> <<"!", "3">> @@
    "- 3" :> <<"-", " ", "3">> @@ "--3" :> <<"-", "-", "3">> @@
    "-\r3" :> <<"-", "\r", "3">> @@ "-<U+00A0>3" :> <<"-", "<U+00A0>", "3">> @@
    "-0x" :> <<"-", "0", "x">> @@
    "Infinity" :> InfinityChars @@ "NaN" :> NaNChars @@
    "-Infinity" :> <<"-">> \o InfinityChars @@ "!NaN" :> <<"!">> \o NaNChars @@
    "true" :> <<"t", "r", "u", "e">>

ConvStrings == {StringValue(CharsOf[s]) : s \in DOMAIN CharsOf}
ConvNumbers ==
    {NumberValue(n) : n \in (0 - MaxMagnitude)..MaxMagnitude}
        \cup {NegativeZero, InfinityValue(1), InfinityValue(-1), NaNValue}
ConvBooleans == {BooleanValue(TRUE), BooleanValue(FALSE)}
ConvPrimitives == ConvStrings \cup ConvNumbers \cup ConvBooleans
\* A function of every kind, a bigint, symbols, a regular expression, and a
\* Promise for the types createNewNode has no case for.
ConvLeaves ==
    ConvPrimitives
        \cup {UndefinedValue, NullValue, PromiseValue, BigIntValue(-3),
              SymbolValue(<<"a">>), SymbolValue(<<>>), RegExpValue(<<"a", "+">>, "gi")}
        \cup {FunctionValue(kind) : kind \in FunctionKinds}

\* The arrays and objects that hold one value of S, alone or next to a
\* convertible one.
Wrap(S) ==
    {ArrayValue(<<>>), ObjectValue(<<>>, <<>>)}
        \cup {ArrayValue(<<v>>) : v \in S}
        \cup {ArrayValue(<<NumberValue(1), v>>) : v \in S}
        \cup {ObjectValue(<<<<"k">>>>, <<v>>) : v \in S}
        \cup {ObjectValue(<<<<"-", "3">>, <<"k">>>>, <<NumberValue(1), v>>) : v \in S}

RECURSIVE ValuesOfDepth(_)
ValuesOfDepth(d) ==
    IF d = 0 THEN ConvLeaves
    ELSE ValuesOfDepth(d - 1) \cup Wrap(ValuesOfDepth(d - 1))

ConvValues == ValuesOfDepth(MaxDepth)

NotConverted == [type |-> "--none--"]

\* A caller converts the value it holds.
Convert ==
    /\ convNode = NotConverted
    /\ convNode' = createNewNode(convValue)
    /\ UNCHANGED <<convValue, cacheVars, ordVars, ctxVars, evalVars, trapVars, driverVars, augVars>>

ConvInit ==
    /\ convValue = UndefinedValue
    /\ convNode = NotConverted

ConvNext == Convert

(***************************************************************************)
(* Trap neutralisation: TRAP_STRINGS of src/src/modules/utils/evalInVm.js  *)
(***************************************************************************)
\* Pieces of text a fragment is put together from: the traps in several
\* spellings, parts of them, and text around them.
TrapPieces ==
    {<<"w", "h", "i", "l", "e", "(", "t", "r", "u", "e", ")", " ", "{", "}">>,
     <<"w", "h", "i", "l", "e", "(", "1", ")", "{", "}">>,
     <<"w", "h", "i", "l", "e", " ", "(", " ", "1", "0", " ", ")", "\n", "{", " ", "}">>,
     <<"W", "H", "I", "L", "E", "(", "T", "r", "u", "e", ")", "{", "}">>,
     <<"w", "h", "i", "l", "e", "<U+000B>", "(", "\r", "7", "\f", ")", "<U+00A0>", "{", "<U+FEFF>", "}">>,
     <<"'", "d", "e", "b", "u", "'", "<U+2028>", "+", "<U+3000>", "'", "g", "g", "e", "r", "'">>,
     <<"w", "h", "i", "l", "e", "(", "0", ")", "{", "}">>,
     <<"w", "h", "i", "l", "e", "(", "0", "1", ")", "{", "}">>,
     <<"w", "h", "i", "l", "e", "(", "t", "r", "u", "e", ")", "{", "x", "}">>,
     <<"d", "e", "b", "u", "g", "g", "e", "r">>,
     <<"D", "e", "B", "u", "G", "g", "E", "r">>,
     <<"'", "d", "e", "b", "u", "'", " ", "+", " ", "'", "g", "g", "e", "r", "'">>,
     <<"\"", "d", "e", "b", "u", "\"", "+", "\"", "g", "g", "e", "r", "\"">>,
     <<"'", "d", "e", "b", "u", "'">>,
     <<"+", "'", "g", "g", "e", "r", "'">>,
     <<"d", "e", "b", "u">>,
     <<"g", "g", "e", "r">>,
     <<";", " ", "'", "s", "a", "f", "e", "'">>,
     <<"w", "h", "i", "l", "e", "(", "1", ")">>,
     <<"{", "}">>,
     <<"(">>,
     <<"1">>,
     <<" ">>,
     <<";">>}

\* The fragments put together from at most n pieces.
RECURSIVE TextsOfPieces(_)
TextsOfPieces(n) ==
    IF n = 0 THEN {<<>>}
    ELSE TextsOfPieces(n - 1)
            \cup {t \o p : t \in TextsOfPieces(n - 1), p \in TrapPieces}

TrapInputs == TextsOfPieces(MaxPieces)

NotNeutralized == <<"--none--">>

\* evalInVm prepares the fragment it was given for the sandbox.
Neutralize ==
    /\ trapOut = NotNeutralized
    /\ trapOut' = ReplaceTraps(trapText)
    /\ UNCHANGED <<trapText, cacheVars, ordVars, ctxVars, evalVars, convVars, driverVars, augVars>>

TrapInit ==
    /\ trapText = <<>>
    /\ trapOut = NotNeutralized

TrapNext == Neutralize

(***************************************************************************)
(* The fixpoint driver.  The modules modelled here only call it           *)
(* (normalizeScript.js hands its rules to flast's applyIteratively), so    *)
(* it follows the design description:                                      *)
(* Idle -> Running -> (Converged | IterationLimitReached).                 *)
(***************************************************************************)
\* The tree is abstracted to the number of nodes a shrinking rule still
\* matches.  A rule either matches nothing, or alters the tree while there is
\* such a node, or alters the tree at every pass.
RuleKinds == {"matchesNothing", "shrinks", "alternates"}
Transform(rule, tree) ==
    CASE rule = "matchesNothing" -> tree
      [] rule = "shrinks" -> IF tree > 0 THEN tree - 1 ELSE tree
      [] rule = "alternates" -> IF tree = 0 THEN 1 ELSE tree - 1

\* The rule lists of at most n rules.
RECURSIVE RuleLists(_)
RuleLists(n) ==
    IF n = 0 THEN {<<>>}
    ELSE RuleLists(n - 1)
            \cup {Append(l, r) : l \in RuleLists(n - 1), r \in RuleKinds}

\* maxIterations: false
NoCeiling == 0
Ceilings == {NoCeiling} \cup 1..MaxCeiling

\* normalizeScript(script): normalizeComputed, then normalizeEmptyStatements,
\* with no ceiling of the caller's; each rewrites what it matches into
\* something it no longer matches.
NormalizeRules == <<"shrinks", "shrinks">>
StartNormalizeScript ==
    /\ drvState = "Idle"
    /\ \E tree \in 0..MaxTree :
        /\ drvTree' = tree
        /\ drvRules' = NormalizeRules
        /\ drvCeiling' = NoCeiling
    /\ drvState' = "Running"
    /\ drvIndex' = 1
    /\ drvDirty' = FALSE
    /\ drvPass' = 0
    /\ drvPassLog' = <<drvTree'>>
    /\ UNCHANGED <<cacheVars, ordVars, ctxVars, evalVars, convVars, trapVars, augVars>>

\* A caller starts the driver on a tree with a rule list and a ceiling.
StartDriver ==
    /\ drvState = "Idle"
    /\ \E tree \in 0..MaxTree, rules \in RuleLists(MaxRules), ceiling \in Ceilings :
        /\ drvTree' = tree
        /\ drvRules' = rules
        /\ drvCeiling' = ceiling
    /\ drvState' = "Running"
    /\ drvIndex' = 1
    /\ drvDirty' = FALSE
    /\ drvPass' = 0
    /\ drvPassLog' = <<drvTree'>>
    /\ UNCHANGED <<cacheVars, ordVars, ctxVars, evalVars, convVars, trapVars, augVars>>

\* The next rule of the pass: match, transform every match, and set the dirty
\* flag if a transform altered the tree.
ApplyRule ==
    /\ drvState = "Running"
    /\ drvIndex <= Len(drvRules)
    /\ drvTree' = Transform(drvRules[drvIndex], drvTree)
    /\ drvDirty' = (drvDirty \/ Transform(drvRules[drvIndex], drvTree) # drvTree)
    /\ drvIndex' = drvIndex + 1
    /\ drvPassLog' = Append(drvPassLog, drvTree')
    /\ UNCHANGED <<drvState, drvRules, drvCeiling, drvPass>>
    /\ UNCHANGED <<cacheVars, ordVars, ctxVars, evalVars, convVars, trapVars, augVars>>

\* Passes are counted as far as a ceiling can matter.
CountPass(pass) == IF pass > MaxCeiling THEN pass ELSE pass + 1

\* After the full rule list: Converged after a clean pass; otherwise the
\* ceiling is checked, once per pass, and the next pass begins.
StateAfterPassNoCeiling(dirty, pass, ceiling) ==
    IF ~dirty THEN "Converged" ELSE "Running"
StateAfterPassOnce(dirty, pass, ceiling) == "Converged"
StateAfterPass(dirty, pass, ceiling) ==
    IF ~dirty THEN "Converged"
    ELSE IF ceiling # NoCeiling /\ pass >= ceiling THEN "IterationLimitReached"
    ELSE "Running"
EndPass ==
    /\ drvState = "Running"
    /\ drvIndex > Len(drvRules)
    /\ drvPass' = CountPass(drvPass)
    /\ drvState' = StateAfterPass(drvDirty, CountPass(drvPass), drvCeiling)
    /\ drvIndex' = 1
    /\ drvDirty' = FALSE
    /\ drvPassLog' = IF drvState' = "Running" THEN <<drvTree>> ELSE drvPassLog
    /\ UNCHANGED <<drvTree, drvRules, drvCeiling>>
    /\ UNCHANGED <<cacheVars, ordVars, ctxVars, evalVars, convVars, trapVars, augVars>>

DriverInit ==
    /\ drvState = "Idle"
    /\ drvRules = <<>>
    /\ drvCeiling = NoCeiling
    /\ drvTree = 0
    /\ drvIndex = 1
    /\ drvDirty = FALSE
    /\ drvPass = 0
    /\ drvPassLog = <<0>>

DriverNext == StartNormalizeScript \/ StartDriver \/ ApplyRule \/ EndPass

(***************************************************************************)
(* The collector over the scripts of the tests: the nodes rules ask a      *)
(* context for in the scripts hD, hT4, hF and hB, and the nodes they mark. *)
(***************************************************************************)
CollectOrigins == {210, 501, 901, 905, 912, 1112}
CollectMarks == {509, 1107}

\* A rule asks for the context of a node of one of the scripts.
CollectAny ==
    /\ \E o \in CollectOrigins, ex \in BOOLEAN : GetDeclarationWithContext(o, ex)
    /\ UNCHANGED <<ordVars, evalVars, restVars, isMarked>>

\* A rule marks a node of one of the scripts.
MarkAny ==
    /\ \E n \in CollectMarks \ isMarked : isMarked' = isMarked \cup {n}
    /\ UNCHANGED <<cacheVars, ordVars, evalVars, restVars, arrays, ctxCall>>

CollectNext == CollectAny \/ MarkAny

(***************************************************************************)
(* The augmented array rule (src/unnamed/part_004, lines 197-326):         *)
(* replaceArrayWithStaticAugmentedVersion on the scripts hA, hB and hG,    *)
(* after other rules asked for contexts of nodes of these scripts.         *)
(***************************************************************************)
\* The roots of the scripts the rule is run on.
AugScripts == {1000, 1100, 1200}

\* arb.ast[0].typeMap.CallExpression: the calls of a script in nodeId order.
RECURSIVE CallsFrom(_, _)
CallsFrom(root, n) ==
    IF n \notin Nodes \/ AST[n].scriptHash # AST[root].scriptHash THEN <<>>
    ELSE (IF AST[n].type = "CallExpression" THEN <<n>> ELSE <<>>) \o CallsFrom(root, n + 1)

\* Lines 215-218: the statement assigns to an identifier of the given name.
AssignsTo(statement, name) ==
    /\ AST[statement].type = "ExpressionStatement"
    /\ AST[KidAt(statement, "expression")].type = "AssignmentExpression"
    /\ AST[KidAt(KidAt(statement, "expression"), "left")].type = "Identifier"
    /\ AST[KidAt(KidAt(statement, "expression"), "left")].name = name

\* Lines 210-219: some statement of the body of the function the argument is
\* declared in (declNode.parentNode) assigns to the name of the argument
\* (functionName = n.arguments[0].name, line 212).
IsSelfModifying(fn, functionName) ==
    \E i \in DOMAIN AST[KidAt(fn, "body")].kids :
        AssignsTo(AST[KidAt(fn, "body")].kids[i], functionName)

\* n.arguments[0].declNode?.parentNode, -1 when there is none.
DeclParent(identifier) == ParentOf(AST[identifier].declNode)

\* Lines 204-226: the test on the arguments of the call.  (The shift counts
\* of the scripts are literals of one digit.)
AugmentingArguments(arguments) ==
    /\ Len(arguments) > 1
    /\ AST[arguments[1]].type = "Identifier"
    /\ AST[arguments[2]].type = "Literal"
    /\ ~ParseIntIsNaN(<<AST[arguments[2]].value>>)
    /\ DeclParent(arguments[1]) # -1
    /\ \/ /\ AST[DeclParent(arguments[1])].type = "FunctionDeclaration"
          /\ IsSelfModifying(DeclParent(arguments[1]), AST[arguments[1]].name)
       \/ AST[DeclParent(arguments[1])].type = "VariableDeclarator"

\* Lines 203-227: the test a call passes to be a match.
IsAugmentingCall(n) ==
    /\ AST[KidAt(n, "callee")].type \in {"FunctionExpression", "ArrowFunctionExpression"}
    /\ AugmentingArguments(KidsAt(n, "arguments"))

\* augmentedArrayMatch(arb) for the script with the given root.
augmentedArrayMatch(root) == SelectSeq(CallsFrom(root, root), IsAugmentingCall)

\* Lines 254-257: the statement that holds the call.
RECURSIVE TargetOf(_)
TargetOf(t) ==
    IF t = -1 THEN -1
    ELSE IF AST[t].type # "ExpressionStatement" /\ AST[ParentOf(t)].type # "SequenceExpression"
    THEN TargetOf(ParentOf(t))
    ELSE t

\* Line 260: the first argument that is an identifier.
RelevantArrayIdentifier(n) ==
    SelectSeq(KidsAt(n, "arguments"), LAMBDA a : AST[a].type = "Identifier")[1]

\* Lines 263-264: FUNCTION_DECLARATION_PATTERN is /function/i, and of the two
\* types a match's declaration can have only FunctionDeclaration holds it.
ArrayRef(n) ==
    IF AST[DeclParent(RelevantArrayIdentifier(n))].type = "FunctionDeclaration"
    THEN AST[RelevantArrayIdentifier(n)].name \o "()"
    ELSE AST[RelevantArrayIdentifier(n)].name

\* Line 268: contextNodes.length ? createOrderedSrc(contextNodes) : ''
ContextSrc(contextNodes, ids) ==
    IF Len(contextNodes) > 0 THEN createOrderedSrc(contextNodes, FALSE, ids)
    ELSE [output |-> "", processed |-> <<>>, nodes |-> contextNodes, ids |-> ids]

\* Line 269: `${context};\n${createOrderedSrc([targetNode])}\n${ref};`
FragmentSrc(context, target, ref) == context \o ";\n" \o target \o "\n" \o ref \o ";"

\* Lines 278-290: the node the replacement is put on: the body of the
\* function, or the init of the declarator, -1 when it has none.
ReplacedNode(n) ==
    IF AST[DeclParent(RelevantArrayIdentifier(n))].type = "FunctionDeclaration"
    THEN KidAt(DeclParent(RelevantArrayIdentifier(n)), "body")
    ELSE KidAt(DeclParent(RelevantArrayIdentifier(n)), "init")

\* arb.markNode on a node that is not there: flast either lets the call pass
\* or throws on it.
MarkAbsent == {"ignored", "thrown"}

\* Lines 272-291: how the marking ends, given what evalInVm returned.
MarkEnds(n, replacementNode) ==
    IF replacementNode = BAD_VALUE THEN {"none"}
    ELSE IF ReplacedNode(n) = -1 THEN MarkAbsent
    ELSE {"both"}

\* Lines 273-291: the nodes marked, given the statement of the call and the
\* node the replacement is put on.
Marked(target, replaced, end) ==
    IF end = "none" THEN {}
    ELSE IF end = "both" THEN {target, replaced}
    ELSE {target}

\* What a transform leaves in the record of the rule.
Transformed(n, contextNodes, hit, src, r, marks, end) ==
    [n |-> n, context |-> contextNodes, hit |-> hit, src |-> src, ret |-> r.ret,
     memoHit |-> r.hit, before |-> isMarked, marked |-> marks, end |-> end]

\* No context was reconstructed yet.
NoRecon ==
    [stage |-> "none", origin |-> -1, exclude |-> FALSE, array |-> 0,
     first |-> <<>>, second |-> <<>>, renumbered |-> {}]

AugInit ==
    /\ augMatches = <<>>
    /\ augIndex = 0
    /\ augLog = <<>>
    /\ recon = NoRecon

\* The nodes other rules ask a context for before the rule runs.
AugOrigins == {1009, 1026, 1112, 1208, 1231}

\* Before the rule runs, another rule asks for the context of a node.
AugCollect ==
    /\ augIndex = 0
    /\ \E o \in AugOrigins, ex \in BOOLEAN :
        /\ GetDeclarationWithContext(o, ex)
        /\ recon' = [NoRecon EXCEPT !.stage = "collected", !.origin = o, !.exclude = ex,
                                    !.array = ctxCall'.ret, !.first = arrays'[ctxCall'.ret]]
    /\ UNCHANGED <<ordVars, evalVars, convVars, trapVars, driverVars, isMarked,
                   augMatches, augIndex, augLog>>

\* That rule calls createOrderedSrc on the array it was given.
AugReconstruct ==
    /\ augIndex = 0
    /\ recon.stage = "collected"
    /\ \E c \in {createOrderedSrc(arrays[recon.array], FALSE, nodeId)} :
        /\ \A n \in Nodes : c.ids[n].hi <= MaxShift
        /\ arrays' = [arrays EXCEPT ![recon.array] = c.nodes]
        /\ nodeId' = c.ids
        /\ recon' = [recon EXCEPT !.stage = "reconstructed",
                                  !.renumbered = {n \in Nodes : c.ids[n] # nodeId[n]}]
    /\ UNCHANGED <<cacheVars, evalVars, convVars, trapVars, driverVars, isMarked, ctxCall,
                   arr, inp, po, outNodes, out, augMatches, augIndex, augLog>>

\* It asks for the context of the same node again.
AugCollectAgain ==
    /\ augIndex = 0
    /\ recon.stage = "reconstructed"
    /\ GetDeclarationWithContext(recon.origin, recon.exclude)
    /\ recon' = [recon EXCEPT !.stage = "again", !.second = arrays'[ctxCall'.ret]]
    /\ UNCHANGED <<ordVars, evalVars, convVars, trapVars, driverVars, isMarked,
                   augMatches, augIndex, augLog>>

\* replaceArrayWithStaticAugmentedVersion(arb), line 319: the matches.
AugStart ==
    /\ augIndex = 0
    /\ \E root \in AugScripts : augMatches' = augmentedArrayMatch(root)
    /\ augIndex' = 1
    /\ UNCHANGED <<cacheVars, ordVars, ctxVars, evalVars, convVars, trapVars, driverVars,
                   augLog, recon>>

\* Lines 254-291 of augmentedArrayTransform: what surrounds the collector's
\* call, which returned the array ret of contextArrays.  The collector's
\* getCache call of line 267 has made the script of n current before evalInVm
\* is called in line 272.
EvaluateAndMark(n, contextArrays, ret, hit) ==
    \E target \in {TargetOf(n)} :
    \E c \in {ContextSrc(contextArrays[ret], nodeId)} :
    \E t \in {createOrderedSrc(<<TreeNode(target)>>, FALSE, c.ids)} :
    \E src \in {FragmentSrc(c.output, t.output, ArrayRef(n))} :
    \E r \in {evalInVm(src, EVAL_CACHE, NewContext, Now)} :
    \E end \in MarkEnds(n, r.ret) :
    \E marks \in {Marked(target, ReplacedNode(n), end)} :
        /\ \A k \in Nodes : t.ids[k].hi <= MaxShift
        /\ arrays' = [contextArrays EXCEPT ![ret] = c.nodes]
        /\ nodeId' = t.ids
        /\ EVAL_CACHE' = r.memo
        /\ evalLog' = Append(evalLog,
                RecordedIn(GetCacheOwner(AST[n].scriptHash, RELEVANT_SCRIPT_HASH),
                           src, FALSE, r))
        /\ isMarked' = isMarked \cup marks
        /\ augLog' = Append(augLog, Transformed(n, contextArrays[ret], hit, src, r, marks, end))
        /\ augIndex' = IF end = "thrown" THEN Len(augMatches) + 1 ELSE augIndex + 1

\* augmentedArrayTransform(arb, n), the whole of it: the collector's call of
\* line 267 (as in GetDeclarationWithContext) and what surrounds it.
TransformMatch(n) ==
    \E obj \in {GetCacheObj(AST[n].scriptHash, RELEVANT_SCRIPT_HASH, CACHE,
                            Cardinality(DOMAIN heap))} :
    \E mapping \in {IF obj \in DOMAIN heap THEN heap[obj] ELSE EmptyMapping} :
    \E found \in {CachedContext(mapping, n, nodeId)} :
    \E ret \in {IF found # 0 THEN found ELSE Len(arrays) + 1} :
    \E contextArrays \in {IF found # 0 THEN arrays
                          ELSE Append(arrays, Elements(ComputeContext(n, TRUE, isMarked)))} :
        /\ obj \in DOMAIN heap \/ Cardinality(DOMAIN heap) < MaxObjs
        /\ found # 0 \/ Len(arrays) < MaxArrays
        /\ RELEVANT_SCRIPT_HASH' = GetCacheOwner(AST[n].scriptHash, RELEVANT_SCRIPT_HASH)
        /\ CACHE' = obj
        /\ calls' = Called(AST[n].scriptHash, obj, Cardinality(DOMAIN mapping))
        /\ flushedSince' = FALSE
        /\ heap' = IF found # 0 THEN (obj :> mapping) @@ heap
                   ELSE (obj :> StoreContext(mapping, n, nodeId, ret)) @@ heap
        /\ ctxCall' = [origin |-> n, exclude |-> TRUE, ret |-> ret, hit |-> found # 0,
                       marked |-> AbortsOnBoth(n, isMarked)]
        /\ EvaluateAndMark(n, contextArrays, ret, found # 0)

\* Lines 321-323: the next match is transformed.
AugTransform ==
    /\ augIndex \in 1..Len(augMatches)
    /\ TransformMatch(augMatches[augIndex])
    /\ UNCHANGED <<arr, inp, po, outNodes, out, sb, batchDone, convVars, trapVars,
                   driverVars, augMatches, recon>>

AugNext == AugCollect \/ AugReconstruct \/ AugCollectAgain \/ AugStart \/ AugTransform

(***************************************************************************)
(* Claims about the script-scoped cache                                    *)
(***************************************************************************)
\* C1: two getCache calls with the same identity (null and undefined being the
\* one fallback identity), with no getCache call for another identity and no
\* flush in between, return the same mapping object, so what is written
\* through one handle is read through the other.
C1_SameIdentitySameMapping ==
    (/\ Len(calls) = 2
     /\ NormalizeHash(calls[1].arg) = NormalizeHash(calls[2].arg)
     /\ ~calls[1].afterFlush)
    => /\ calls[1].obj = calls[2].obj
       /\ heap[calls[1].obj] = heap[calls[2].obj]

\* C1 witness: getCache(null) then getCache(undefined) (or the reverse)
\* returned one object, and an entry has been written through a handle.
C1_Witness ==
    /\ Len(calls) = 2
    /\ calls[1].arg # calls[2].arg
    /\ {calls[1].arg, calls[2].arg} = {NullId, UndefId}
    /\ ~calls[1].afterFlush
    /\ calls[1].obj = calls[2].obj
    /\ DOMAIN heap[calls[1].obj] # {}

\* C2: a getCache call whose identity differs from the owner returns an empty
\* mapping and makes that identity the owner, and the resident mapping never
\* holds an entry of a script other than the owner.
C2_InvalidateOnChange ==
    /\ (Len(calls) >= 1 /\ NormalizeHash(calls[1].arg) # calls[1].ownerBefore)
       => /\ calls[1].size = 0
          /\ calls[1].ownerAfter = NormalizeHash(calls[1].arg)
    /\ Len(calls) >= 1 => RELEVANT_SCRIPT_HASH = calls[1].ownerAfter
    /\ \A k \in DOMAIN heap[CACHE] : heap[CACHE][k].by = RELEVANT_SCRIPT_HASH

\* C2 witness: the previous owner had written an entry, another identity was
\* asked for and got an empty mapping that is now the resident one.
C2_Witness ==
    /\ Len(calls) = 2
    /\ calls[1].ownerBefore = NormalizeHash(calls[2].arg)
    /\ NormalizeHash(calls[1].arg) # calls[1].ownerBefore
    /\ DOMAIN heap[calls[2].obj] # {}
    /\ calls[1].size = 0
    /\ CACHE = calls[1].obj

\* The latest getCache call came after a flush, the one before it before that
\* flush, and both gave the same identity.
SameIdentityAcrossFlush ==
    /\ Len(calls) = 2
    /\ calls[1].afterFlush
    /\ NormalizeHash(calls[1].arg) = NormalizeHash(calls[2].arg)

\* C12 (as claimed): flush empties the mapping in place, so the object
\* getCache(id) returned before a flush is the object getCache(id) returns
\* after it, and that object has no entries.
C12_FlushInPlaceAsClaimed ==
    SameIdentityAcrossFlush
    => /\ calls[1].obj = calls[2].obj
       /\ heap[calls[2].obj] = EmptyMapping

\* C13: flush leaves the owning identity alone: the owner the first getCache
\* call after a flush finds is the one the call before the flush left.  That
\* call, when given the owner's identity, returns the resident mapping as
\* it is (no invalidation), empty, and the owner stays; given another identity
\* it returns a new empty mapping and that identity becomes the owner.  A
\* further call with the same identity returns the same mapping object, so
\* what was written to it is still there.
C13_FlushKeepsOwner ==
    /\ (Len(calls) = 2 /\ calls[1].afterFlush)
       => calls[1].ownerBefore = calls[2].ownerAfter
    /\ \A i \in 1..Len(calls) :
        calls[i].afterFlush =>
            /\ calls[i].size = 0
            /\ calls[i].ownerAfter = NormalizeHash(calls[i].arg)
            /\ IF NormalizeHash(calls[i].arg) = calls[i].ownerBefore
               THEN calls[i].obj = calls[i].residentBefore
               ELSE calls[i].obj # calls[i].residentBefore
    /\ (/\ Len(calls) = 2
        /\ ~calls[1].afterFlush
        /\ NormalizeHash(calls[1].arg) = NormalizeHash(calls[2].arg))
       => /\ calls[1].obj = calls[2].obj
          /\ calls[1].size >= calls[2].size

\* C13 witness: an owner had written an entry, the cache was flushed, the
\* owner asked again and got the resident mapping, empty, wrote an entry to
\* it, asked once more and got the same mapping with the entry in it.
C13_Witness ==
    /\ Len(calls) = 2
    /\ calls[2].afterFlush
    /\ calls[2].ownerBefore = NormalizeHash(calls[2].arg)
    /\ calls[2].size = 0
    /\ \E o \in DOMAIN heap : o < calls[2].obj /\ heap[o] # EmptyMapping
    /\ ~calls[1].afterFlush
    /\ NormalizeHash(calls[1].arg) = calls[1].ownerBefore
    /\ calls[1].obj = calls[2].obj
    /\ calls[1].size = 1

(***************************************************************************)
(* Claims about the source reconstructor                                   *)
(***************************************************************************)
Positions == 1..Len(outNodes)

\* The position of an emitted node in the original source: the nodeId flast
\* gave the tree node it is, or was made from.
OriginalPosition(e) == AST[e.ref].nodeId

\* An expression statement whose expression is a call of a function expression.
IsIIFEStatement(e) ==
    /\ IsTreeNode(e)
    /\ AST[e.ref].type = "ExpressionStatement"
    /\ AST[KidAt(e.ref, "expression")].type = "CallExpression"
    /\ AST[KidAt(KidAt(e.ref, "expression"), "callee")].type = "FunctionExpression"

\* Any form of an immediately-invoked function expression in the output.
IsIIFE(e) ==
    \/ IsIIFEStatement(e)
    \/ /\ AST[e.ref].type = "CallExpression"
       /\ AST[KidAt(e.ref, "callee")].type = "FunctionExpression"

\* The declarations the arguments of IIFE statement e resolve to.
ArgDeclarations(e) ==
    {AST[a].declNode : a \in {x \in Nodes : /\ AST[x].parent = KidAt(e.ref, "expression")
                                            /\ AST[x].parentKey = "arguments"
                                            /\ AST[x].declNode # -1}}

\* The highest-numbered of them.
LastArgDeclaration(e) ==
    CHOOSE d \in ArgDeclarations(e) :
        \A d2 \in ArgDeclarations(e) : AST[d2].nodeId <= AST[d].nodeId

\* C6 (as claimed): for a given array and preserveOrder, a call returns the
\* text a first call returns, whatever calls were made before it.
C6_PureAsClaimed ==
    inp # <<>> => out = createOrderedSrc(inp, po, NodeId0).output

\* C7 (as claimed): with preserveOrder = true the nodes are emitted in their
\* original source position order, whatever calls were made before.
C7_PreserveOrderAsClaimed ==
    (inp # <<>> /\ po) =>
        \A i, j \in Positions :
            i < j => OriginalPosition(outNodes[i]) <= OriginalPosition(outNodes[j])

\* C8 (as claimed): with preserveOrder = false an IIFE statement without an
\* argument dependency comes after every non-IIFE node, and such IIFEs keep
\* their original relative order.
C8_IIFEsLastAsClaimed ==
    (inp # <<>> /\ ~po) =>
        \A i, j \in Positions :
            (IsIIFEStatement(outNodes[i]) /\ ArgDeclarations(outNodes[i]) = {})
            => /\ ~IsIIFE(outNodes[j]) => j < i
               /\ (/\ IsIIFEStatement(outNodes[j])
                   /\ ArgDeclarations(outNodes[j]) = {}
                   /\ OriginalPosition(outNodes[i]) < OriginalPosition(outNodes[j]))
                  => i < j

\* C9 (as claimed): with preserveOrder = false an IIFE statement with an
\* argument dependency comes after the declaration of its highest-numbered
\* dependency and before every other node that lies after that declaration.
C9_IIFEAfterDependencyAsClaimed ==
    (inp # <<>> /\ ~po) =>
        \A i, j \in Positions :
            (/\ IsIIFEStatement(outNodes[i])
             /\ ArgDeclarations(outNodes[i]) # {}
             /\ i # j)
            => LET decl == AST[LastArgDeclaration(outNodes[i])].parent
                   other == outNodes[j].ref
               IN /\ (AST[other].start <= AST[decl].start
                      /\ AST[other].end >= AST[decl].end) => j < i
                  /\ AST[other].start >= AST[decl].end => i < j

\* C10 (as claimed): every distinct node of the input array has exactly one
\* entry in the output (arr[k] is the node emitted for inp[k]).
C10_NoDuplicatesAsClaimed ==
    inp # <<>> =>
        \A k \in 1..Len(inp) :
            Cardinality({j \in Positions :
                \E k2 \in 1..Len(inp) : inp[k2] = inp[k] /\ outNodes[j] = arr[k2]}) = 1

\* The tree node a given node is emitted as: the statement of a call that is
\* the expression of an expression statement, else the node itself.
StatementOf(e) ==
    IF /\ AST[e.ref].type = "CallExpression"
       /\ AST[AST[e.ref].parent].type = "ExpressionStatement"
    THEN AST[e.ref].parent ELSE e.ref

\* The tree nodes of S in original source order.
RECURSIVE InSourceOrder(_)
InSourceOrder(S) ==
    IF S = {} THEN <<>>
    ELSE LET first == CHOOSE n \in S : \A n2 \in S : AST[n].nodeId <= AST[n2].nodeId
         IN <<first>> \o InSourceOrder(S \ {first})

\* The line the claim gives tree node n: its verbatim source text, with the
\* declaration kind in front of a declarator and ';' after a declarator or an
\* assignment expression.
VerbatimLine(n) ==
    (IF AST[n].type = "VariableDeclarator" THEN AST[AST[n].parent].kind \o " " ELSE "")
    \o AST[n].src
    \o (IF AST[n].type \in {"VariableDeclarator", "AssignmentExpression"} THEN ";" ELSE "")
    \o "\n"

RECURSIVE VerbatimText(_)
VerbatimText(s) == IF s = <<>> THEN "" ELSE VerbatimLine(s[1]) \o VerbatimText(Tail(s))

\* C11 (as claimed): when none of the given nodes is an IIFE, the text is the
\* given nodes in original source order, whatever the order of the array and
\* whatever calls were made before, one line per node: the declaration kind in
\* front of a declarator, ';' after a declarator or an assignment expression,
\* and every other node as its own verbatim source text.
C11_PlainNodesVerbatimInOrderAsClaimed ==
    (inp # <<>> /\ \A k \in 1..Len(inp) : ~IsIIFE(inp[k]))
    => out = VerbatimText(InSourceOrder({StatementOf(inp[k]) : k \in 1..Len(inp)}))

\* A function expression without a name of its own.
IsAnonymousFunction(e) ==
    AST[e.ref].type = "FunctionExpression" /\ KidAt(e.ref, "id") = -1

\* C11 (amended): when none of the given nodes is an IIFE or an anonymous
\* function expression, the text is the given nodes in original source order,
\* whatever the order of the array and whatever calls were made before, one
\* line per node: the declaration kind in front of a declarator, ';' after a
\* declarator or an assignment expression, every other node verbatim.
C11_PlainNodesVerbatimInOrder ==
    (/\ inp # <<>>
     /\ \A k \in 1..Len(inp) : ~IsIIFE(inp[k]) /\ ~IsAnonymousFunction(inp[k]))
    => out = VerbatimText(InSourceOrder({StatementOf(inp[k]) : k \in 1..Len(inp)}))

\* C11 witness: the assignment x=1 was given before the declarator of x, which
\* precedes it in the source; the declarator comes out first, with its kind
\* and ';', and the assignment with ';'.
C11_Witness ==
    /\ Len(inp) = 2
    /\ AST[inp[1].ref].type = "AssignmentExpression"
    /\ AST[inp[2].ref].type = "VariableDeclarator"
    /\ AST[inp[2].ref].nodeId < AST[inp[1].ref].nodeId
    /\ out = "var x;\nx=1;\n"

(***************************************************************************)
(* Claims about the context collector                                      *)
(***************************************************************************)
\* C3 (as claimed): a getDeclarationWithContext call made while its origin
\* node or one of the origin's descendants is marked returns the empty array,
\* whatever calls and markings came before.
C3_MarkedGivesEmptyAsClaimed ==
    (ctxCall.origin # -1 /\ ctxCall.marked) => arrays[ctxCall.ret] = <<>>

\* C14 (as claimed): a call with excludeOriginNode = true returns no node whose
\* source range lies within the origin's range, whatever calls preceded it.
C14_OriginExcludedAsClaimed ==
    (ctxCall.origin # -1 /\ ctxCall.exclude)
    => \A i \in 1..Len(arrays[ctxCall.ret]) :
           ~isNodeInRanges(arrays[ctxCall.ret][i].ref, <<RangeOf(ctxCall.origin)>>)

\* C15: whatever calls on nodes of other scripts came before, the context
\* returned for a node holds nodes of that node's own script only.
C15_ContextOfOwnScript ==
    ctxCall.origin # -1
    => \A i \in 1..Len(arrays[ctxCall.ret]) :
           AST[arrays[ctxCall.ret][i].ref].scriptHash = AST[ctxCall.origin].scriptHash

\* C15 witness: the context of a call a() of one script was collected and
\* cached, then the context of the call a() of another script, which has the
\* same source text and the same nodeId, was asked for and collected anew.
C15_Witness ==
    /\ Len(arrays) = 2
    /\ arrays[1] # <<>>
    /\ AST[arrays[1][1].ref].scriptHash = "hC"
    /\ \E i \in 1..Len(arrays[1]) : arrays[1][i].ref \in {107, 110}
    /\ ctxCall.origin = 807
    /\ ~ctxCall.hit
    /\ ctxCall.ret = 2
    /\ arrays[2] # <<>>

\* The nodes of an array of nodes, as a set.
NodeSet(elements) == {elements[i] : i \in DOMAIN elements}

\* The last call was answered from the cache with the context computed for the
\* node n, another node of the same script with the same source text, under
\* the same excludeOriginNode flag and with no node marked.
ReusedFrom(n) ==
    /\ ctxCall.hit
    /\ n # ctxCall.origin
    /\ AST[n].scriptHash = AST[ctxCall.origin].scriptHash
    /\ AST[n].src = AST[ctxCall.origin].src
    /\ isMarked = {}
    /\ arrays[ctxCall.ret] = Elements(ComputeContext(n, ctxCall.exclude, {}))

\* C28 (as claimed): reuse under the source-text-only cache key never changes
\* the result: for two distinct nodes n and m of one script with identical
\* source text, getDeclarationWithContext(m) called after
\* getDeclarationWithContext(n) returns the same set of nodes that it returns
\* for m when the cache is empty.
C28_TextKeyReuseSameResultAsClaimed ==
    \A n \in CtxOrigins :
        ReusedFrom(n) =>
            NodeSet(arrays[ctxCall.ret]) =
                NodeSet(Elements(ComputeContext(ctxCall.origin, ctxCall.exclude, {})))

\* The node and the flag of the last getDeclarationWithContext call, and what
\* the collector reaches and returns for them with the marks as they are.
LastCollected == Traverse(StartAt(ctxCall.origin), isMarked)
LastContext == ComputeContext(ctxCall.origin, ctxCall.exclude, isMarked)

\* The function declarations among the nodes collected.
DeclarationsIn(nodes) ==
    {nodes[i] : i \in {j \in DOMAIN nodes : AST[nodes[j]].type = "FunctionDeclaration"}}

\* The references to the name of the function declaration f.
ReferencesTo(f) ==
    {AST[KidAt(f, "id")].refs[i] : i \in DOMAIN AST[KidAt(f, "id")].refs}

\* A plain reassignment: the reference is the left side of an assignment.
IsReassignment(r) ==
    AST[r].parentKey = "left" /\ AST[AST[r].parent].type = "AssignmentExpression"

\* n lies in the range of another of the nodes.
WithinAnother(n, nodes) ==
    \E i \in DOMAIN nodes :
        /\ nodes[i] # n
        /\ AST[nodes[i]].start <= AST[n].start
        /\ AST[nodes[i]].end >= AST[n].end

\* n lies in the range of the origin node, and the origin node is excluded.
ExcludedWithOrigin(n) ==
    /\ ctxCall.exclude
    /\ AST[ctxCall.origin].start <= AST[n].start
    /\ AST[ctxCall.origin].end >= AST[n].end

\* C24 (as claimed): a function declaration reached during collection is
\* dropped from the result if every reference to its name is a plain
\* reassignment of that name, and is kept when at least one reference is
\* anything else.
C24_ReassignedFunctionsDroppedAsClaimed ==
    ctxCall.origin # -1 =>
        \A f \in DeclarationsIn(LastCollected) :
            /\ (\A r \in ReferencesTo(f) : IsReassignment(r)) => ~InSeq(LastContext, f)
            /\ (\E r \in ReferencesTo(f) : ~IsReassignment(r)) => InSeq(LastContext, f)

\* C24 (amended): a function declaration reached during collection whose name
\* has references, all of them plain reassignments, is dropped from the result;
\* one whose name has no reference, or a reference that is anything else, is
\* kept, unless it lies in the range of the excluded origin node or in the
\* range of another collected node.
C24_ReassignedFunctionsDropped ==
    ctxCall.origin # -1 =>
        \A f \in DeclarationsIn(LastCollected) :
            /\ (ReferencesTo(f) # {} /\ \A r \in ReferencesTo(f) : IsReassignment(r))
                   => ~InSeq(LastContext, f)
            /\ (/\ ReferencesTo(f) = {} \/ \E r \in ReferencesTo(f) : ~IsReassignment(r)
                /\ ~ExcludedWithOrigin(f)
                /\ ~WithinAnother(f, LastCollected))
                   => InSeq(LastContext, f)

\* The last call was a miss and returned what the collector computes for its
\* node and flag with the marks as they are.
LastCallComputed ==
    /\ ctxCall.origin # -1
    /\ ~ctxCall.hit
    /\ arrays[ctxCall.ret] = Elements(LastContext)

\* C24 witness: the context of the assignment 'a = {}' of script hF was
\* computed; the declaration of a, which is only reassigned, was collected and
\* is not in the result.
C24_Witness ==
    /\ LastCallComputed
    /\ ctxCall.origin = 905
    /\ InSeq(LastCollected, 901)
    /\ ReferencesTo(901) # {}
    /\ arrays[ctxCall.ret] = <<TreeNode(905)>>

\* The range of the node a lies within the range of the node b.
RangeWithin(a, b) == AST[b].start <= AST[a].start /\ AST[b].end >= AST[a].end

\* C25: no array getDeclarationWithContext returns holds two distinct nodes
\* with the range of one inside the range of the other, and none holds a
\* Literal, an Identifier or a MemberExpression.
C25_NoNestedNoBareNodes ==
    \A k \in DOMAIN arrays :
        /\ \A i, j \in DOMAIN arrays[k] :
               arrays[k][i].ref # arrays[k][j].ref =>
                   ~RangeWithin(arrays[k][i].ref, arrays[k][j].ref)
        /\ \A i \in DOMAIN arrays[k] :
               AST[arrays[k][i].ref].type \notin {"Literal", "Identifier", "MemberExpression"}

\* C25 witness: the context of the assignment 'arg = 3' inside function b of
\* script hD was computed; the assignment and the function around it were both
\* collected, and only the function is in the result.
C25_Witness ==
    /\ LastCallComputed
    /\ ctxCall.origin = 210
    /\ InSeq(LastCollected, 210) /\ InSeq(LastCollected, 205)
    /\ RangeWithin(210, 205)
    /\ arrays[ctxCall.ret] = <<TreeNode(205)>>

\* The nodes of the script of the node o.
ScriptNodes(o) == {n \in Nodes : AST[n].scriptHash = AST[o].scriptHash}

\* No node occurs twice in s.
NoRepeats(s) == \A i, j \in DOMAIN s : s[i] = s[j] => i = j

\* What C27 asks of the record of one traversal.
ProcessedOnceAndBounded(o, log) ==
    /\ NoRepeats(log.processed)
    /\ Len(log.processed) <= Cardinality(ScriptNodes(o))
    /\ Len(log.taken) <= Cardinality(ScriptNodes(o)) + log.pushes
    /\ log.pushes <= Cardinality(ScriptNodes(o)) * Cardinality(ScriptNodes(o))

\* C27: the traversal from the origin node of the last call ends, with the
\* marks as they are, although declarations, references and scopes point at
\* each other: no node gets past line 167 twice, so the loop runs at most once
\* for each node and each node put on the stack.
C27_TraversalEnds ==
    ctxCall.origin # -1 =>
        /\ ProcessedOnceAndBounded(ctxCall.origin,
               TraverseLog(StartAt(ctxCall.origin), isMarked, StartLog))
        /\ TraverseLog(StartAt(ctxCall.origin), isMarked, StartLog).collected = LastCollected

\* C27 witness: the context of the call of the function expression of script hB
\* was computed; the call a.shift() was put on the stack twice (as a child of
\* a.push(a.shift()) and, by line 226, as a call on a reference to the
\* parameter a), and the loop passed over it the second time.
C27_Witness ==
    /\ LastCallComputed
    /\ ctxCall.origin = 1112
    /\ isMarked = {}
    /\ \E i, j \in DOMAIN TraverseLog(StartAt(1112), {}, StartLog).taken :
           /\ i < j
           /\ TraverseLog(StartAt(1112), {}, StartLog).taken[i] = 1122
           /\ TraverseLog(StartAt(1112), {}, StartLog).taken[j] = 1122
    /\ Len(TraverseLog(StartAt(1112), {}, StartLog).taken) >
           Len(TraverseLog(StartAt(1112), {}, StartLog).processed)
    /\ Len(arrays[ctxCall.ret]) > 1

(***************************************************************************)
(* Claims about safe evaluation                                            *)
(***************************************************************************)
\* The ways a run fails: a thrown error, a syntax error, a timeout, the memory
\* limit exceeded.
FailingOutcomes == {"throw", "syntax", "timeout", "oom"}

\* A syntax-tree node: an object with a type.
IsSyntaxNode(x) == "type" \in DOMAIN x /\ x # BAD_VALUE

\* C4 (as claimed): every evalInVm call returns a syntax-tree node or BAD_VALUE
\* and lets no exception reach its caller, whatever the fragment and however
\* the isolated run ended; a run that ended in a thrown error, a syntax error,
\* a timeout or the memory limit gives BAD_VALUE.  The code returns the native
\* function Object.prototype.valueOf for the fragment ({valueOf: 1}).
C4_NodeOrBadValueNeverThrowsAsClaimed ==
    \A i \in DOMAIN evalLog :
        /\ ~evalLog[i].exception
        /\ evalLog[i].ret = BAD_VALUE \/ IsSyntaxNode(evalLog[i].ret)
        /\ evalLog[i].outcome \in FailingOutcomes => evalLog[i].ret = BAD_VALUE

\* C5 as claimed: two evalInVm calls with the same fragment text return equal
\* results, whether the second is a hit, a miss, or comes after the memo was
\* cleared, and Math.random() and Date.now() give BAD_VALUE.
C5_DeterministicAsClaimed ==
    /\ \A i, j \in DOMAIN evalLog :
            evalLog[i].text = evalLog[j].text => evalLog[i].ret = evalLog[j].ret
    /\ \A i \in DOMAIN evalLog :
            evalLog[i].text \in {"Math.random()", "Date.now()"} => evalLog[i].ret = BAD_VALUE

\* The call that memoized what the hit evalLog[j] returned: the latest miss on
\* the same text before it.
MemoizedBy(j) ==
    CHOOSE i \in 1..(j - 1) :
        /\ evalLog[i].text = evalLog[j].text /\ ~evalLog[i].hit
        /\ \A i2 \in (i + 1)..(j - 1) :
               evalLog[i2].text = evalLog[j].text => evalLog[i2].hit

\* C16 (as claimed): the evaluation memo is script-scoped, so a call that is
\* answered from the memo is answered with a result memoized while the script
\* current at the call was current.
C16_MemoScriptScopedAsClaimed ==
    \A j \in DOMAIN evalLog :
        evalLog[j].hit => evalLog[MemoizedBy(j)].script = evalLog[j].script

\* What one evalInVm call may do to a memo: a hit leaves it as it was; a miss
\* on a memo with fewer than MAX_CACHE_SIZE entries adds one entry and removes
\* none; a miss on a memo with MAX_CACHE_SIZE entries leaves the new entry
\* alone.
MemoStepAllowed(f, memo, after, hit) ==
    /\ Cardinality(DOMAIN after) <= MAX_CACHE_SIZE
    /\ hit => after = memo
    /\ (~hit /\ Cardinality(DOMAIN memo) < MAX_CACHE_SIZE) =>
           /\ DOMAIN after = DOMAIN memo \cup {EvalCacheName(f)}
           /\ \A k \in DOMAIN memo : after[k] = memo[k]
    /\ (~hit /\ Cardinality(DOMAIN memo) = MAX_CACHE_SIZE) =>
           DOMAIN after = {EvalCacheName(f)}

MemoStepOf(f, memo, r) == MemoStepAllowed(f, memo, r.memo, r.hit)

\* C26: the evaluation memo never holds more than MAX_CACHE_SIZE entries, and
\* from every memo the calls leave behind, an evalInVm call on any fragment
\* removes entries only by clearing the whole memo, which it does exactly on a
\* miss that finds MAX_CACHE_SIZE entries, before the new entry is stored.
C26_MemoBounded ==
    /\ Cardinality(DOMAIN EVAL_CACHE) <= MAX_CACHE_SIZE
    /\ \A f \in CoreFragments \cup {Fillers[1], Fillers[MaxFillers]} :
           MemoStepOf(f, EVAL_CACHE, evalInVm(f, EVAL_CACHE, NewContext, Now))

\* C26 witness: the batch filled the memo to MAX_CACHE_SIZE entries, and the
\* one call made after it was a miss that left only its own entry.
C26_Witness ==
    /\ batchDone
    /\ Len(evalLog) = 1
    /\ ~evalLog[1].hit
    /\ DOMAIN EVAL_CACHE = {EvalCacheName(evalLog[1].text)}

\* What evalInVm(f, sb) returns when the memo is not consulted: the node made
\* from the result of running f in sb.
RunInSandbox(f, ctx, now) == evalInVm(f, EmptyMapping, ctx, now).ret

\* C30 (as claimed): evalInVm(f, sb) returns the result of running f in the
\* supplied sandbox sb; when sb carries a variable set by an earlier run, what
\* an earlier call with another sandbox, or with none, memoized for the same text
\* is not returned in its place.
C30_RunsInSuppliedSandboxAsClaimed ==
    (sb # NoSandbox /\ ~sb.disposed /\ sb.x # NoValue) =>
        \A f \in CoreFragments :
            evalInVm(f, EVAL_CACHE, sb, Now).ret = RunInSandbox(f, sb, Now)

(***************************************************************************)
(* Claims about the value-to-node conversion                               *)
(***************************************************************************)
\* The value a node denotes when its generated source is evaluated: a
\* literal denotes its value, Infinity and NaN are the global numbers, and a
\* unary operator is applied to what its argument denotes.
DigitOf(c) == (CHOOSE d \in 1..Len(DigitChars) : DigitChars[d] = c) - 1
RECURSIVE DigitsValue(_, _)
DigitsValue(chars, acc) ==
    IF chars = <<>> THEN acc
    ELSE DigitsValue(Tail(chars), acc * 10 + DigitOf(chars[1]))
RECURSIVE DropTrailingBlanks(_)
DropTrailingBlanks(chars) ==
    IF chars # <<>> /\ chars[Len(chars)] \in WhiteSpace
    THEN DropTrailingBlanks(SubSeq(chars, 1, Len(chars) - 1))
    ELSE chars
SignOf(chars) == IF chars # <<>> /\ chars[1] = "-" THEN -1 ELSE 1
\* Number(string) for a trimmed string of decimal digits or Infinity.
TrimmedToNumber(chars) ==
    IF chars = <<>> THEN NumberValue(0)
    ELSE IF Unsigned(chars) = InfinityChars THEN InfinityValue(SignOf(chars))
    ELSE IF Unsigned(chars) # <<>> /\ \A i \in 1..Len(Unsigned(chars)) : IsDigit(Unsigned(chars)[i])
    THEN FiniteValue(SignOf(chars), DigitsValue(Unsigned(chars), 0))
    ELSE NaNValue
ToNumber(value) ==
    CASE value.t = "Number" -> value
      [] value.t = "Boolean" -> NumberValue(IF value.flag THEN 1 ELSE 0)
      [] value.t = "String" -> TrimmedToNumber(DropTrailingBlanks(SkipBlanks(value.chars)))
Negated(number) ==
    IF number.kind = "nan" THEN number
    ELSE [number EXCEPT !.sign = 0 - number.sign]
ToBoolean(value) ==
    CASE value.t = "Boolean" -> value.flag
      [] value.t = "String" -> value.chars # <<>>
      [] value.t = "Number" ->
            ~(value.kind = "nan" \/ (value.kind = "finite" /\ value.mag = 0))
RECURSIVE EvalNode(_)
EvalNode(node) ==
    CASE node.type = "Literal" -> node.value
      [] node.type = "Identifier" ->
            IF node.name = "NaN" THEN NaNValue ELSE InfinityValue(1)
      [] node.type = "UnaryExpression" /\ node.operator = "-" ->
            Negated(ToNumber(EvalNode(node.argument)))
      [] node.type = "UnaryExpression" /\ node.operator = "+" ->
            ToNumber(EvalNode(node.argument))
      [] node.type = "UnaryExpression" /\ node.operator = "!" ->
            BooleanValue(~ToBoolean(EvalNode(node.argument)))

\* C17 (as stated): for every string, number and boolean v, the node
\* createNewNode(v) denotes a value of the same type and the same value as v.
\* The code turns the string '-3' into the unary expression -'3', which denotes
\* the number -3, and the string 'Infinity' into the identifier Infinity.
C17_RoundTripAsClaimed ==
    (convNode # NotConverted /\ convValue \in ConvPrimitives)
        => EvalNode(convNode) = convValue

\* A value no node stands for: a function whose printed source does not
\* parse (a native function, an anonymous function expression), a value of a
\* type createNewNode has no case for, or an array or object holding such a
\* value at any depth.
RECURSIVE Unconvertible(_)
Unconvertible(value) ==
    CASE value.t \in {"Array", "Object"} ->
            \E i \in 1..Len(value.items) : Unconvertible(value.items[i])
      [] value.t = "Function" -> value.kind \in {"anonymous", "native"}
      [] OTHER ->
            value.t \notin {"String", "Number", "Boolean", "Undefined", "Null",
                            "BigInt", "Symbol", "RegExp"}

\* BAD_VALUE occurs in the node, at any depth.
RECURSIVE MentionsBadValue(_)
MentionsBadValue(node) ==
    CASE node = BAD_VALUE -> TRUE
      [] node.type = "ArrayExpression" ->
            \E i \in 1..Len(node.elements) : MentionsBadValue(node.elements[i])
      [] node.type = "ObjectExpression" ->
            \E i \in 1..Len(node.properties) :
                \/ MentionsBadValue(node.properties[i].key)
                \/ MentionsBadValue(node.properties[i].value)
      [] node.type = "UnaryExpression" -> MentionsBadValue(node.argument)
      [] OTHER -> FALSE

\* The node has one element for every element of the array, one property for
\* every entry of the object, in their order and at every depth.
RECURSIVE OmitsNothing(_, _)
OmitsNothing(node, value) ==
    CASE value.t = "Array" ->
            /\ node.type = "ArrayExpression"
            /\ Len(node.elements) = Len(value.items)
            /\ \A i \in 1..Len(value.items) : OmitsNothing(node.elements[i], value.items[i])
      [] value.t = "Object" ->
            /\ node.type = "ObjectExpression"
            /\ Len(node.properties) = Len(value.keys)
            /\ \A i \in 1..Len(value.keys) :
                /\ node.properties[i].key = createNewNode(StringValue(value.keys[i]))
                /\ OmitsNothing(node.properties[i].value, value.items[i])
      [] OTHER -> node = createNewNode(value)

\* C18: for an array or an object, at any nesting depth: if a nested element
\* or property value cannot be converted, createNewNode returns BAD_VALUE for
\* the whole value; what it returns otherwise neither contains BAD_VALUE nor
\* leaves out an element or a property.
C18_FailsClosed ==
    (convNode # NotConverted /\ convValue.t \in {"Array", "Object"})
        => IF Unconvertible(convValue) THEN convNode = BAD_VALUE
           ELSE ~MentionsBadValue(convNode) /\ OmitsNothing(convNode, convValue)

\* An array whose second element is an object holding a native function has
\* been converted, into BAD_VALUE.
C18_Witness ==
    /\ convValue = ArrayValue(<<NumberValue(1),
                               ObjectValue(<<<<"k">>>>, <<FunctionValue("native")>>)>>)
    /\ convNode = BAD_VALUE

(***************************************************************************)
(* Claims about the trap neutralisation                                    *)
(***************************************************************************)
\* The text has a match of TRAP_STRINGS[k].trap.
ContainsTrap(k, chars) == \E i \in 1..Len(chars) : TrapEnd(k, chars, i) > 0
WhileTrueSafe == "while(true) {}; 'safe'"

DriverEnded == drvState \in {"Converged", "IterationLimitReached"}
WithinCeiling ==
    drvCeiling # NoCeiling =>
        /\ drvPass <= drvCeiling
        /\ drvState = "Running" => drvPass < drvCeiling
        /\ drvState = "IterationLimitReached" => drvPass = drvCeiling

\* C20: with an iteration ceiling set, the driver never makes more passes
\* than the ceiling, whatever the rule list, also one whose transforms alter
\* the tree at every pass; a run that began ends, in Converged or in
\* IterationLimitReached, and non-convergence is that final state of the
\* driver, not a failure of a step.
C20_CeilingEndsRun ==
    /\ [](WithinCeiling)
    /\ [](drvState \in {"Idle", "Running", "Converged", "IterationLimitReached"})
    /\ (drvState = "Running" /\ drvCeiling # NoCeiling) ~> DriverEnded

\* A rule list with a rule that alters the tree at every pass has been run
\* under a ceiling of more than one pass, up to the ceiling.
C20_Witness ==
    /\ drvState = "IterationLimitReached"
    /\ drvCeiling > 1
    /\ drvPass = drvCeiling
    /\ \E i \in 1..Len(drvRules) : drvRules[i] = "alternates"

\* The last pass ran every rule of the list, in its order.
FullPass ==
    /\ Len(drvPassLog) = Len(drvRules) + 1
    /\ \A i \in 1..Len(drvRules) : drvPassLog[i + 1] = Transform(drvRules[i], drvPassLog[i])
\* Some transform of the last pass altered the tree.
PassAltered == \E i \in 1..(Len(drvPassLog) - 1) : drvPassLog[i + 1] # drvPassLog[i]
CeilingReachedBy(pass) == drvCeiling # NoCeiling /\ pass >= drvCeiling
\* The step ends a pass: the driver leaves Running or begins the next pass.
PassEnds == drvState = "Running" /\ (drvState' # "Running" \/ drvIndex' < drvIndex)

\* C21: the driver enters Converged only at the end of a full pass over the
\* rule list in which no transform altered the tree; a pass ends only when it
\* is full, and when a transform of it altered the tree and the ceiling is not
\* reached the driver begins another pass at the first rule.
C21_ConvergedAfterCleanPass ==
    [][/\ (drvState # "Converged" /\ drvState' = "Converged")
            => (drvState = "Running" /\ FullPass /\ ~PassAltered)
       /\ PassEnds => FullPass
       /\ (PassEnds /\ PassAltered /\ ~CeilingReachedBy(drvPass'))
            => (drvState' = "Running" /\ drvIndex' = 1 /\ drvPassLog' = <<drvTree>>)
       /\ (PassEnds /\ ~PassAltered) => drvState' = "Converged"]_vars

\* A list of two rules, one of them shrinking, converged in its third pass
\* or later: the last pass ran both rules and altered nothing.
C21_Witness ==
    /\ drvState = "Converged"
    /\ drvPass >= 3
    /\ Len(drvRules) = 2
    /\ Len(drvPassLog) = 3
    /\ \E i \in 1..2 : drvRules[i] = "shrinks"

(***************************************************************************)
(* Claims about the augmented array rule                                   *)
(***************************************************************************)
\* The node n is one of the nodes marked, or one of them lies inside it.
HoldsMarked(n, marked) ==
    \E k \in marked : AST[k].scriptHash = AST[n].scriptHash /\ RangeWithin(k, n)

\* C22 (as claimed): the matches of the rule are transformed in match order,
\* and a later transform observes the marks made by earlier transforms of the
\* same pass: a node marked by an earlier match is treated as not live, so no
\* transform builds its fragment from a context that holds such a node.  (Only
\* runs of the rule on a script no other rule asked a context of are looked at.)
C22_LaterMatchesObserveMarksAsClaimed ==
    recon.stage = "none" =>
    \A j \in DOMAIN augLog :
        /\ augLog[j].n = augMatches[j]
        /\ \A i \in DOMAIN augLog[j].context :
               IsTreeNode(augLog[j].context[i]) =>
                   ~HoldsMarked(augLog[j].context[i].ref, augLog[j].before)

\* The declaration of the array the match n augments holds a marked node.
ArrayDeclarationMarked(n, marked) ==
    HoldsMarked(DeclParent(RelevantArrayIdentifier(n)), marked)

\* C23 (as claimed): when evalInVm returns BAD_VALUE for a match, the
\* transform marks no node and the rule goes on with the remaining matches;
\* when it returns a usable node, the statement of the function call and the
\* declaration of the array are both marked, never just one of them.  (Only
\* runs of the rule on a script no other rule asked a context of are looked at.)
C23_MarksBothOrNoneAsClaimed ==
    recon.stage = "none" =>
    \A j \in DOMAIN augLog :
        /\ augLog[j].ret = BAD_VALUE => augLog[j].marked = {} /\ augLog[j].end = "none"
        /\ augLog[j].ret # BAD_VALUE =>
               /\ TargetOf(augLog[j].n) \in augLog[j].marked
               /\ ArrayDeclarationMarked(augLog[j].n, augLog[j].marked)
               /\ augLog[j].end = "both"

\* C29 (as claimed): a context returned by getDeclarationWithContext is not
\* altered by reconstructing it: after the call, createOrderedSrc on the
\* returned array and the same call again, the second call returns the same
\* nodes in the same order as the first, and no node of the tree has another
\* nodeId than before the createOrderedSrc call.
C29_ReconstructingLeavesContextAsClaimed ==
    /\ recon.stage \in {"reconstructed", "again"} => recon.renumbered = {}
    /\ recon.stage = "again" => recon.second = recon.first

(***************************************************************************)
(* Specifications                                                          *)
(***************************************************************************)
\* The state after the modules are loaded.
Init ==
    /\ CacheInit
    /\ OrdInit
    /\ CtxInit
    /\ EvalInit
    /\ ConvInit
    /\ TrapInit
    /\ DriverInit
    /\ AugInit

\* The state in which a caller holds a value to convert.
ConvSetup ==
    /\ CacheInit
    /\ OrdInit
    /\ CtxInit
    /\ EvalInit
    /\ convValue \in ConvValues
    /\ convNode = NotConverted
    /\ TrapInit
    /\ DriverInit
    /\ AugInit

\* The state in which evalInVm was given a fragment.
TrapSetup ==
    /\ CacheInit
    /\ OrdInit
    /\ CtxInit
    /\ EvalInit
    /\ ConvInit
    /\ trapText \in TrapInputs
    /\ trapOut = NotNeutralized
    /\ DriverInit
    /\ AugInit

SpecCache == Init /\ [][CacheNext]_vars
SpecOrd == Init /\ [][OrdNext]_vars
SpecCtx == Init /\ [][CtxNext]_vars
SpecCollect == Init /\ [][CollectNext]_vars
SpecAug == Init /\ [][AugNext]_vars
SpecEval == Init /\ [][EvalNext]_vars
SpecEvalScripts == Init /\ [][EvalScriptsNext]_vars
SpecConv == ConvSetup /\ [][ConvNext]_vars
SpecTrap == TrapSetup /\ [][TrapNext]_vars
\* The driver is synchronous and never suspends: a step that can be taken is taken.
SpecDriver == Init /\ [][DriverNext]_vars /\ WF_vars(DriverNext)

====
